---- MODULE Spec2Model ----
(***************************************************************************)
(* A model of frappe/core/doctype/user/user.py: the User controller's      *)
(* validate pipeline and save hooks, the reset-token issuer and the        *)
(* update_password endpoint.                                               *)
(*                                                                         *)
(* Strings of the program are TLA+ strings.  A child table (roles,         *)
(* role_profiles) is the sequence of its rows' link values.  A password is *)
(* a record [id, size, score]: its text (id), its len() and the score the  *)
(* strength estimator gives it.  A reset key is a natural number: 0 is the *)
(* empty string, 1..MaxHashes are the strings frappe.generate_hash draws,  *)
(* and sha256_hash is an injective map whose values lie above them (a      *)
(* digest differs from every generated string and from the empty string).  *)
(***************************************************************************)
EXTENDS Integers, Sequences, FiniteSets, TLC

VARIABLES
    users,      \* tabUser: the persisted row of every existing user
    auth,       \* the password store kept by frappe.utils.password
    doc,        \* the in-memory User document of the pipeline specification
    sessions,   \* the users that hold a live session
    session,    \* frappe.session.user of the current request
    now,        \* now_datetime(), in seconds
    hash_count, \* how many strings frappe.generate_hash has drawn so far
    outbox,     \* the login mails handed to frappe.sendmail
    system_settings, \* the System Settings the controller reads
    redeemed,   \* the raw keys with which update_password has changed a password
    call,       \* the operation the last step ran, with its arguments
    resp,       \* what that operation returned or raised, and what it invoked
    login_manager, \* whether frappe.local has a login_manager (it has in a web request)
    tables      \* the rows of the other doctypes the controller reads and writes

vars == <<users, auth, doc, sessions, session, now, hash_count, outbox, system_settings,
          redeemed, call, resp, login_manager, tables>>


-----------------------------------------------------------------------------
(* Bounds of the model *)

MaxRoles == 2         \* rows of the roles table of an input document
MaxRoleProfiles == 2  \* rows of the role_profiles table of an input document
MaxTime == 3          \* the clock stops here
MaxHashes == 2        \* strings frappe.generate_hash may draw
ExpiryWindow == 2     \* the non-zero reset_password_link_expiry_duration tried

(* Program constants *)

MAX_PASSWORD_SIZE == 512

STANDARD_USERS == {"Administrator", "Guest"}

user_type_mapper == [Administrator |-> "System User", Guest |-> "Website User"]

-----------------------------------------------------------------------------
(* The catalogs the controller reads: Role, Role Profile, User Type, and    *)
(* System Settings.  No operation of user.py writes them.                  *)

RoleTable ==
    [ Desk     |-> [desk_access |-> 1, disabled |-> 0],
      Portal   |-> [desk_access |-> 0, disabled |-> 0],
      Guest    |-> [desk_access |-> 0, disabled |-> 0],
      Retired  |-> [desk_access |-> 1, disabled |-> 1] ]
    @@ ("System Manager" :> [desk_access |-> 1, disabled |-> 0])

RoleNames == DOMAIN RoleTable

RoleProfileTable ==
    [ Staff   |-> {"Desk", "Portal"},
      Alumni  |-> {"Portal", "Retired"} ]

RoleProfileNames == DOMAIN RoleProfileTable

\* "Member Type" is a custom User Type with a fixed role, "Plain Type" a custom
\* one without; the linked set answers user_linked_with_permission_on_doctype.
UserTypeTable ==
    [ SystemUser  |-> [name |-> "System User",  is_standard |-> 1, role |-> "", linked |-> {}],
      WebsiteUser |-> [name |-> "Website User", is_standard |-> 1, role |-> "", linked |-> {}],
      MemberType  |-> [name |-> "Member Type",  is_standard |-> 0, role |-> "Portal",
                       linked |-> {"a@x.org"}],
      PlainType   |-> [name |-> "Plain Type",   is_standard |-> 0, role |-> "", linked |-> {}] ]

UserTypeNames == {UserTypeTable[k].name : k \in DOMAIN UserTypeTable}

UserTypeDoc(t) == CHOOSE r \in {UserTypeTable[k] : k \in DOMAIN UserTypeTable} : r.name = t

\* validate_email_address(email, throw=True) accepts exactly the well-formed ones
WellFormedEmails == {"a@x.org", "b@x.org"}

\* a well-formed address no user has yet
UnusedEmails == {"c@x.org"}

\* str.strip() on the strings the model passes around
strip(str) == IF str = " c@x.org " THEN "c@x.org" ELSE str

\* the System Settings tried: the password policy on or off, the reset link
\* expiring after ExpiryWindow seconds or never
SystemSettingsInputs ==
    { [ enable_password_policy |-> p, minimum_password_score |-> 2,
        logout_on_password_reset |-> 0, reset_password_link_expiry_duration |-> e ] :
        p \in {0, 1}, e \in {0, ExpiryWindow} }

-----------------------------------------------------------------------------
(* Passwords *)

\* a password: its text, its len(), and what the strength estimator says of it
Password(id, size, score, warning, suggestions) ==
    [id |-> id, size |-> size, score |-> score, warning |-> warning,
     suggestions |-> suggestions]

NoPassword == Password("", 0, 0, "", <<>>)
WeakPassword == Password("weak", 8, 1, "This is a common password.", <<"Add another word.">>)
GoodPassword == Password("good", MAX_PASSWORD_SIZE, 3, "", <<>>)
OtherPassword == Password("other", 12, 4, "", <<>>)
HugePassword == Password("huge", MAX_PASSWORD_SIZE + 1, 4, "", <<>>)

\* frappe.utils.password stores a one-way hash and check_password compares hashes
passlibhash(pwd) == [hash_of |-> pwd.id]

-----------------------------------------------------------------------------
(* Sequence helpers *)

Range(s) == {s[i] : i \in DOMAIN s}

\* the rows of s whose index is in K, in order
Rows(s, K) ==
    LET F[i \in 0..Len(s)] ==
            IF i = 0 THEN <<>>
            ELSE IF i \in K THEN Append(F[i - 1], s[i]) ELSE F[i - 1]
    IN F[Len(s)]

SeqsUpTo(S, n) == UNION {[1..k -> S] : k \in 0..n}

\* every order in which a Python set can be iterated
Orderings(S) == {q \in [1..Cardinality(S) -> S] : Range(q) = S}

-----------------------------------------------------------------------------
(* Keys and digests *)

\* sha256_hash: injective, and never the empty string or a generated string
sha256_hash(k) == MaxHashes + 1 + k

\* the strings a caller may send as a key: empty, one that generate_hash can
\* draw, or a digest that is stored for some user
KeyInputs(rows) == (0..MaxHashes) \cup {rows[n].reset_password_key : n \in DOMAIN rows}

-----------------------------------------------------------------------------
(* The validate pipeline.  A context c is [doc, err, trace]: the document,  *)
(* the error raised so far ("" for none) and the collaborators invoked, in  *)
(* order.  Every step is skipped once an error was raised.                  *)

\* F applied to the value of v, which is computed once
Bind(v, F(_)) == CHOOSE r \in {F(x) : x \in {v}} : TRUE

Try(c, F(_)) == Bind(c, LAMBDA x : IF x.err # "" THEN x ELSE F(x))

Throw(c, e) == [c EXCEPT !.err = e]

\* " ".join(parts)
RECURSIVE join(_)
join(parts) ==
    IF parts = <<>> THEN ""
    ELSE IF Len(parts) = 1 THEN parts[1]
    ELSE parts[1] \o " " \o join(Tail(parts))

\* handle_password_test_fail: frappe.throw(msg, title="Invalid Password")
handle_password_test_fail(c, feedback) ==
    [c EXCEPT !.err = "Invalid Password",
              !.exc_msg = join(<<feedback.warning>> \o feedback.suggestions)]

Did(c, what) == [c EXCEPT !.trace = Append(@, what)]

\* variant: the score is only compared with the minimum
test_password_strength_score_zero_passes(new_password) ==
    IF system_settings.enable_password_policy = 0 THEN [kind |-> "empty"]
    ELSE IF new_password = NoPassword THEN [kind |-> "none"]
    ELSE [kind |-> "result",
          score |-> new_password.score,
          feedback |->
             [warning |-> new_password.warning,
              suggestions |-> new_password.suggestions,
              password_policy_validation_passed |->
                 (new_password.score >= system_settings.minimum_password_score)]]

\* test_password_strength: {} with the policy off, None for an empty password
test_password_strength(new_password) ==
    IF system_settings.enable_password_policy = 0 THEN [kind |-> "empty"]
    ELSE IF new_password = NoPassword THEN [kind |-> "none"]
    ELSE [kind |-> "result",
          score |-> new_password.score,
          feedback |->
             [warning |-> new_password.warning,
              suggestions |-> new_password.suggestions,
              password_policy_validation_passed |->
                 (new_password.score # 0
                    /\ new_password.score >= system_settings.minimum_password_score)]]

password_strength_test(c) ==
    IF c.doc.flags.ignore_password_policy THEN c
    ELSE IF c.doc.holder = NoPassword THEN c
    ELSE LET result == test_password_strength(c.doc.holder)
         IN IF result.kind = "result" /\ ~result.feedback.password_policy_validation_passed
            THEN handle_password_test_fail(Did(c, "test_password_strength"), result.feedback)
            ELSE Did(c, "test_password_strength")

\* variant: every new name is let through
validate_email_type_accepts_all(c, email) == c

validate_email_type(c, email) ==
    IF strip(email) \in WellFormedEmails \cup UnusedEmails THEN c
    ELSE Throw(c, "InvalidEmailAddressError")

move_role_profile_name_to_role_profiles(c) ==
    IF c.doc.role_profile_name = "" THEN c
    ELSE IF c.doc.role_profile_name \in Range(c.doc.role_profiles)
         THEN [c EXCEPT !.doc.role_profile_name = ""]
         ELSE [c EXCEPT !.doc.role_profiles = Append(@, c.doc.role_profile_name),
                        !.doc.role_profile_name = ""]

\* append_roles(*roles): current_roles is read once, before the loop
append_roles(rows, roles) ==
    rows \o Rows(roles, {i \in DOMAIN roles : roles[i] \notin Range(rows)})

\* the set new_roles that populate_role_profile_roles builds
new_roles(d) ==
    UNION {RoleProfileTable[p] : p \in Range(d.role_profiles) \cap RoleProfileNames}

\* order is the order in which Python iterates the set new_roles
populate_role_profile_roles(c, order) ==
    IF c.doc.role_profiles = <<>> THEN c
    ELSE IF c.doc.name \in STANDARD_USERS THEN [c EXCEPT !.doc.role_profiles = <<>>]
    ELSE IF ~(Range(c.doc.role_profiles) \subseteq RoleProfileNames)
         THEN Throw(c, "DoesNotExistError")
    ELSE LET kept == SelectSeq(c.doc.roles, LAMBDA r : r \in new_roles(c.doc))
         IN [c EXCEPT !.doc.roles = append_roles(kept, order)]

check_roles_added(c) ==
    IF c.doc.user_type # "System User" \/ c.doc.roles # <<>> \/ ~c.doc.flags.in_insert
    THEN c
    ELSE Did(c, "msgprint: no roles")

has_desk_access(d) ==
    IF d.roles = <<>> THEN FALSE
    ELSE Cardinality({r \in RoleNames : RoleTable[r].desk_access = 1 /\ r \in Range(d.roles)}) > 0

set_roles_and_modules_based_on_user_type(c) ==
    LET user_type_doc == UserTypeDoc(c.doc.user_type)
        c1 == IF user_type_doc.role = "" THEN c
              ELSE IF c.doc.name \in user_type_doc.linked
                   THEN Did([c EXCEPT !.doc.roles = <<user_type_doc.role>>], "msgprint: role set")
                   ELSE [c EXCEPT !.doc.roles = <<>>]
    IN Did(c1, "update_modules_in_user")

set_system_user(c) ==
    IF c.doc.user_type # "" /\ UserTypeDoc(c.doc.user_type).is_standard = 0
    THEN IF c.doc.name \in DOMAIN user_type_mapper
         THEN [c EXCEPT !.doc.user_type = user_type_mapper[c.doc.name]]
         ELSE set_roles_and_modules_based_on_user_type(c)
    ELSE [c EXCEPT !.doc.user_type =
              IF has_desk_access(c.doc) THEN "System User" ELSE "Website User"]

\* " ".join(filter(None, [...])): the non-empty parts, in order
set_full_name(c) ==
    [c EXCEPT !.doc.full_name =
        SelectSeq(<<c.doc.first_name, c.doc.last_name>>, LAMBDA x : x # "")]

disable_email_fields_if_user_disabled(c) ==
    IF c.doc.enabled = 0
    THEN [c EXCEPT !.doc.thread_notify = 0, !.doc.send_me_a_copy = 0,
                   !.doc.allowed_in_mentions = 0]
    ELSE c

\* variant: the reserved identities are not checked
check_enable_disable_allows_reserved(c) ==
    LET c1 == IF c.doc.enabled = 0 /\ login_manager THEN Did(c, "logout") ELSE c
        c2 == Did(c1, "toggle_notifications")
    IN disable_email_fields_if_user_disabled(c2)

check_enable_disable(c) ==
    IF c.doc.enabled = 0 /\ c.doc.name \in STANDARD_USERS
    THEN Throw(c, "cannot be disabled")
    ELSE LET c1 == IF c.doc.enabled = 0 /\ login_manager THEN Did(c, "logout") ELSE c
             c2 == Did(c1, "toggle_notifications")
         IN disable_email_fields_if_user_disabled(c2)

\* variant: drops the empty rows but keeps repeated roles
ensure_unique_roles_keeps_repeats(c) ==
    [c EXCEPT !.doc.roles = SelectSeq(@, LAMBDA r : r # "")]

ensure_unique_roles(c) ==
    LET r == c.doc.roles
    IN [c EXCEPT !.doc.roles =
           Rows(r, {i \in DOMAIN r : ~(r[i] = "" \/ \E j \in 1..(i - 1) : r[j] = r[i])})]

ensure_unique_role_profiles(c) ==
    LET r == c.doc.role_profiles
    IN [c EXCEPT !.doc.role_profiles =
           Rows(r, {i \in DOMAIN r : ~(\E j \in 1..(i - 1) : r[j] = r[i])})]

\* variant: the roles of Guest are left alone
remove_all_roles_for_guest_skipped(c) == c

remove_all_roles_for_guest(c) ==
    IF c.doc.name = "Guest"
    THEN [c EXCEPT !.doc.roles = SelectSeq(@, LAMBDA r : r = "Guest")]
    ELSE c

\* variant: leaves the globally disabled roles in place
remove_disabled_roles_skipped(c) == c

remove_disabled_roles(c) ==
    LET disabled_roles == {r \in RoleNames : RoleTable[r].disabled = 1}
    IN [c EXCEPT !.doc.roles = SelectSeq(@, LAMBDA r : r \notin disabled_roles)]

\* frappe.scrub on the first names the model passes
scrub(txt) == IF txt = "Ann" THEN "ann" ELSE txt

\* str.strip(" @") on the usernames the model passes
strip_username(str) == IF str = "@ann" THEN "ann" ELSE str

\* username_exists: another user's row holds the username
username_exists(d, username) ==
    \E n \in DOMAIN users \ {d.name} : users[n].username = username

\* suggest_username: the messages it prints
suggest_username(c) ==
    IF scrub(c.doc.first_name) # c.doc.username
       /\ ~username_exists(c.doc, scrub(c.doc.first_name))
    THEN Did(c, "msgprint Suggested Username")
    ELSE c

\* the username a new named user starts with, and what validate_username makes of it
initial_username(d) ==
    IF d.username = "" /\ d.islocal /\ d.first_name # "" THEN scrub(d.first_name)
    ELSE d.username

\* variant: a username another user holds is kept
validate_username_keeps_taken(c) ==
    IF initial_username(c.doc) = "" THEN c
    ELSE [c EXCEPT !.doc.username = strip_username(initial_username(c.doc))]

validate_username(c) ==
    IF initial_username(c.doc) = "" THEN c
    ELSE Bind([c EXCEPT !.doc.username = strip_username(initial_username(c.doc))],
              LAMBDA c1 :
                 IF username_exists(c1.doc, c1.doc.username)
                 THEN [(IF c1.doc.user_type = "System User"
                        THEN suggest_username(Did(c1, "msgprint Username already exists"))
                        ELSE c1) EXCEPT !.doc.username = ""]
                 ELSE c1)

\* a variant that lets a repeated mailbox pass
validate_user_email_inbox_lenient(c) == c

validate_user_email_inbox(c) ==
    IF Cardinality({c.doc.user_emails[i].email_account : i \in DOMAIN c.doc.user_emails})
          # Len(c.doc.user_emails)
    THEN [c EXCEPT !.err = "ValidationError", !.exc_msg = "Email Account added multiple times"]
    ELSE c

\* "if self.user_emails: ask_pass_update()": the awaiting-password registry is rewritten
ask_pass_update(c) ==
    IF c.doc.user_emails # <<>> THEN Did(c, "ask_pass_update") ELSE c

\* the Module Profile documents and their block lists
ModuleProfileTable == [ Basic |-> <<"Blog", "Wiki">> ]

validate_allowed_modules(c) ==
    IF c.doc.module_profile = "" THEN c
    ELSE IF c.doc.module_profile \notin DOMAIN ModuleProfileTable
         THEN Throw(c, "DoesNotExistError")
    ELSE [c EXCEPT !.doc.block_modules = ModuleProfileTable[c.doc.module_profile]]

\* a user_image is known by its length
NoImage == [url |-> "", len |-> 0]

validate_user_image(c) ==
    IF c.doc.user_image # NoImage /\ c.doc.user_image.len > 2000
    THEN [c EXCEPT !.err = "ValidationError", !.exc_msg = "Not a valid User Image."]
    ELSE c

\* get_system_timezone()
system_timezone == "UTC"

set_time_zone(c) ==
    IF c.doc.time_zone = "" THEN [c EXCEPT !.doc.time_zone = system_timezone] ELSE c

\* the sentinel language is unset
clear_loading_language(c) ==
    IF c.doc.language = "Loading..." THEN [c EXCEPT !.doc.language = ""] ELSE c

\* get_social_login_userid(provider): the userid of the first entry of the
\* provider; 0 stands for an empty userid and for None
get_social_login_userid(d, provider) ==
    LET found == {i \in DOMAIN d.social_logins : d.social_logins[i].provider = provider}
    IN IF found = {} THEN 0
       ELSE d.social_logins[CHOOSE i \in found : \A j \in found : i <= j].userid

\* set_social_login_userid(provider, userid): append a row
set_social_login_userid(d, provider, userid) ==
    [d EXCEPT !.social_logins = Append(@, [provider |-> provider, userid |-> userid])]

\* frappe.generate_hash(length=39): a string no social login of the document holds
generate_userid(d) ==
    LET held == {d.social_logins[i].userid : i \in DOMAIN d.social_logins} \cup {0}
    IN (CHOOSE m \in held : \A x \in held : x <= m) + 1

\* variant: a userid is generated at every validate
ensure_frappe_userid_always(c) ==
    IF c.doc.name \notin STANDARD_USERS
    THEN [c EXCEPT !.doc = set_social_login_userid(@, "frappe", generate_userid(@))]
    ELSE c

\* the last statement of validate: a user outside STANDARD_USERS without a
\* 'frappe' userid gets one
ensure_frappe_userid(c) ==
    IF c.doc.name \notin STANDARD_USERS /\ get_social_login_userid(c.doc, "frappe") = 0
    THEN [c EXCEPT !.doc = set_social_login_userid(@, "frappe", generate_userid(@))]
    ELSE c

\* the steps of validate, in the order of the source
NumSteps == 20

\* a variant with the module profile applied before the disabled roles are dropped
validate_step_modules_early(i, c, in_test, order) ==
    CASE i = 1 -> IF in_test THEN c ELSE password_strength_test(c)
      [] i = 2 -> IF c.doc.name \in STANDARD_USERS THEN c
                  ELSE validate_email_type([c EXCEPT !.doc.email = c.doc.name], c.doc.name)
      [] i = 3 -> move_role_profile_name_to_role_profiles(c)
      [] i = 4 -> populate_role_profile_roles(c, order)
      [] i = 5 -> check_roles_added(c)
      [] i = 6 -> set_system_user(c)
      [] i = 7 -> set_full_name(c)
      [] i = 8 -> check_enable_disable(c)
      [] i = 9 -> ensure_unique_roles(c)
      [] i = 10 -> ensure_unique_role_profiles(c)
      [] i = 11 -> remove_all_roles_for_guest(c)
      [] i = 12 -> validate_username(c)
      [] i = 13 -> validate_allowed_modules(c)
      [] i = 14 -> remove_disabled_roles(c)
      [] i = 15 -> validate_user_email_inbox(c)
      [] i = 16 -> ask_pass_update(c)
      [] i = 17 -> validate_user_image(c)
      [] i = 18 -> set_time_zone(c)
      [] i = 19 -> clear_loading_language(c)
      [] i = 20 -> ensure_frappe_userid(c)

validate_step(i, c, in_test, order) ==
    CASE i = 1 -> IF in_test THEN c ELSE password_strength_test(c)
      [] i = 2 -> IF c.doc.name \in STANDARD_USERS THEN c
                  ELSE validate_email_type([c EXCEPT !.doc.email = c.doc.name], c.doc.name)
      [] i = 3 -> move_role_profile_name_to_role_profiles(c)
      [] i = 4 -> populate_role_profile_roles(c, order)
      [] i = 5 -> check_roles_added(c)
      [] i = 6 -> set_system_user(c)
      [] i = 7 -> set_full_name(c)
      [] i = 8 -> check_enable_disable(c)
      [] i = 9 -> ensure_unique_roles(c)
      [] i = 10 -> ensure_unique_role_profiles(c)
      [] i = 11 -> remove_all_roles_for_guest(c)
      [] i = 12 -> validate_username(c)
      [] i = 13 -> remove_disabled_roles(c)
      [] i = 14 -> validate_user_email_inbox(c)
      [] i = 15 -> ask_pass_update(c)
      [] i = 16 -> validate_allowed_modules(c)
      [] i = 17 -> validate_user_image(c)
      [] i = 18 -> set_time_zone(c)
      [] i = 19 -> clear_loading_language(c)
      [] i = 20 -> ensure_frappe_userid(c)

RECURSIVE run_steps(_, _, _, _)
run_steps(i, c, in_test, order) ==
    IF i > NumSteps THEN c
    ELSE run_steps(i + 1, Try(c, LAMBDA x : validate_step(i, x, in_test, order)),
                   in_test, order)

\* variant: captures new_password without clearing the field
capture_new_password_keeps_field(d) == [d EXCEPT !.holder = d.new_password]

\* the first two statements of validate: capture new_password, clear the field
capture_new_password(d) == [d EXCEPT !.holder = d.new_password, !.new_password = NoPassword]

validate(d, in_test, order) ==
    run_steps(1, [doc |-> capture_new_password(d), err |-> "", exc_msg |-> "", trace |-> <<>>],
              in_test, order)

\* the orders in which populate_role_profile_roles may iterate new_roles
RoleOrders(d) ==
    LET c == move_role_profile_name_to_role_profiles([doc |-> d, err |-> "", trace |-> <<>>])
    IN Orderings(new_roles(c.doc))

-----------------------------------------------------------------------------
(* Documents and rows.  A row of tabUser holds the persisted fields; the    *)
(* in-memory document adds the transient holder __new_password, the flags   *)
(* and __islocal.                                                           *)

TransientFields == {"holder", "flags", "islocal"}

Row(d) == [f \in (DOMAIN d) \ TransientFields |-> d[f]]

NoFlags == [in_insert |-> FALSE, ignore_password_policy |-> FALSE,
            no_welcome_mail |-> FALSE, email_sent |-> FALSE]

\* frappe.get_doc("User", name): the row, with fresh transient state
get_doc(rows, name) ==
    rows[name] @@ [holder |-> NoPassword, flags |-> NoFlags, islocal |-> FALSE]

NoAuth == [hash_of |-> "<unset>"]

\* the link get_url builds from the raw key
reset_link(key, password_expired) == [key |-> key, password_expired |-> password_expired]

NoResp == [err |-> "", exc_msg |-> "", trace |-> <<>>, message |-> "", http_status_code |-> 200,
           link |-> reset_link(0, FALSE), ret |-> ""]

\* a world is the part of the state a request can write, with the error raised
\* and the collaborators invoked so far
World ==
    [users |-> users, auth |-> auth, sessions |-> sessions, session |-> session,
     hash_count |-> hash_count, outbox |-> outbox, redeemed |-> redeemed,
     err |-> "", exc_msg |-> "", trace |-> <<>>, message |-> "", http_status_code |-> 200,
     link |-> reset_link(0, FALSE), ret |-> "", after_commit |-> {}]

\* frappe.utils.password.update_password
update_password_in_store(w, user, pwd, logout_all_sessions) ==
    [w EXCEPT !.auth = [@ EXCEPT ![user] = passlibhash(pwd)],
              !.sessions = IF logout_all_sessions # 0 THEN @ \ {user} ELSE @,
              !.trace = Append(@, "_update_password")]

\* frappe.sendmail through send_login_mail: raises OutgoingEmailError when no
\* outgoing account is set up (mail_ok false)
send_login_mail(w, d, template, link, mail_ok) ==
    IF mail_ok
    THEN [w EXCEPT !.outbox = Append(@, [recipients |-> d.email, template |-> template,
                                         link |-> link]),
                   !.trace = Append(@, "sendmail")]
    ELSE [w EXCEPT !.err = "OutgoingEmailError", !.trace = Append(@, "sendmail")]

\* variant: stores the raw key
stored_reset_key_raw(key) == key

\* the value User.reset_password stores as reset_password_key
stored_reset_key(key) == sha256_hash(key)

\* variant: a key that is stored is not overwritten
reset_password_of_keeps_stored_key(w, d, send_email, password_expired, mail_ok) ==
    LET key == w.hash_count + 1
        hashed_key == IF w.users[d.name].reset_password_key # 0
                      THEN w.users[d.name].reset_password_key ELSE stored_reset_key(key)
        link == reset_link(key, password_expired)
        w1 == [w EXCEPT !.hash_count = key,
                        !.users = [@ EXCEPT ![d.name].reset_password_key = hashed_key,
                                            ![d.name].last_reset_password_key_generated_on = now],
                        !.trace = Append(@, "generate_hash")]
        d1 == [d EXCEPT !.reset_password_key = hashed_key,
                        !.last_reset_password_key_generated_on = now]
        w2 == IF send_email THEN send_login_mail(w1, d1, "password_reset", link, mail_ok)
              ELSE w1
    IN [w |-> [w2 EXCEPT !.link = IF w2.err = "" THEN link ELSE @], doc |-> d1, link |-> link]

\* User.reset_password: returns [w, doc, link]
reset_password_of(w, d, send_email, password_expired, mail_ok) ==
    LET key == w.hash_count + 1
        hashed_key == stored_reset_key(key)
        link == reset_link(key, password_expired)
        w1 == [w EXCEPT !.hash_count = key,
                        !.users = [@ EXCEPT ![d.name].reset_password_key = hashed_key,
                                            ![d.name].last_reset_password_key_generated_on = now],
                        !.trace = Append(@, "generate_hash")]
        d1 == [d EXCEPT !.reset_password_key = hashed_key,
                        !.last_reset_password_key_generated_on = now]
        w2 == IF send_email THEN send_login_mail(w1, d1, "password_reset", link, mail_ok)
              ELSE w1
    IN [w |-> [w2 EXCEPT !.link = IF w2.err = "" THEN link ELSE @], doc |-> d1, link |-> link]

send_welcome_mail_to_user(w, d, mail_ok) ==
    LET r == reset_password_of(w, d, FALSE, FALSE, TRUE)
    IN [w |-> send_login_mail(r.w, r.doc, "new_user", r.link, mail_ok), doc |-> r.doc]

email_new_password(w, d, new_password) ==
    IF new_password # NoPassword /\ ~d.flags.in_insert
    THEN update_password_in_store(w, d.name, new_password, d.logout_all_sessions)
    ELSE w

\* a variant without the except clause
send_password_notification_raises(w, d, new_password, mail_ok) ==
    LET r == IF d.flags.in_insert
             THEN IF d.name \notin STANDARD_USERS
                  THEN LET w1 == IF new_password # NoPassword
                                 THEN update_password_in_store(w, d.name, new_password,
                                                               d.logout_all_sessions)
                                 ELSE w
                       IN IF ~d.flags.no_welcome_mail /\ d.send_welcome_email # 0
                             /\ ~d.flags.email_sent
                          THEN LET m == send_welcome_mail_to_user(w1, d, mail_ok)
                               IN IF m.w.err # "" THEN m
                                  ELSE [w |-> m.w, doc |-> [m.doc EXCEPT !.flags.email_sent = TRUE]]
                          ELSE [w |-> w1, doc |-> d]
                  ELSE [w |-> w, doc |-> d]
             ELSE [w |-> email_new_password(w, d, new_password), doc |-> d]
    IN r

\* returns [w, doc]; an OutgoingEmailError is caught and logged
send_password_notification(w, d, new_password, mail_ok) ==
    LET r == IF d.flags.in_insert
             THEN IF d.name \notin STANDARD_USERS
                  THEN LET w1 == IF new_password # NoPassword
                                 THEN update_password_in_store(w, d.name, new_password,
                                                               d.logout_all_sessions)
                                 ELSE w
                       IN IF ~d.flags.no_welcome_mail /\ d.send_welcome_email # 0
                             /\ ~d.flags.email_sent
                          THEN LET m == send_welcome_mail_to_user(w1, d, mail_ok)
                               IN IF m.w.err # "" THEN m
                                  ELSE [w |-> m.w, doc |-> [m.doc EXCEPT !.flags.email_sent = TRUE]]
                          ELSE [w |-> w1, doc |-> d]
                  ELSE [w |-> w, doc |-> d]
             ELSE [w |-> email_new_password(w, d, new_password), doc |-> d]
    IN IF r.w.err = "OutgoingEmailError"
       THEN [w |-> [r.w EXCEPT !.err = "", !.trace = Append(@, "log_error")], doc |-> r.doc]
       ELSE r

after_insert(w, d) ==
    [w EXCEPT !.trace = @ \o <<"create_notification_settings",
                               "delete_key users_for_mentions", "delete_key enabled_users">>]

\* frappe.enqueue(method, ..., now=False, enqueue_after_commit=True): the job is
\* handed to the queue when the transaction commits
enqueue(w, method, user) ==
    [w EXCEPT !.after_commit = @ \cup {[method |-> method, user |-> user]},
              !.trace = Append(@, "enqueue " \o method)]

\* a variant that schedules the avatar lookup for every user
enqueue_jobs_always(w, d) ==
    enqueue(enqueue(w, "create_contact", d.name), "update_gravatar", d.name)

\* the two jobs of on_update, outside test and install mode
enqueue_jobs(w, d) ==
    IF d.name \notin STANDARD_USERS /\ d.user_image = NoImage
    THEN enqueue(enqueue(w, "create_contact", d.name), "update_gravatar", d.name)
    ELSE enqueue(w, "create_contact", d.name)

\* the row a document had before the save; an inserted document has none
NoRowBefore == [name |-> ""]

\* Document.has_value_changed: a field the document does not have reads as None
\* on both sides; without a previous row every field counts as changed
has_value_changed(d, before, fieldname) ==
    \/ before = NoRowBefore
    \/ fieldname \in DOMAIN d /\ before[fieldname] # d[fieldname]

\* a variant that deletes the cache keys only on insert
on_update_defaults_keeps_cache(w, d, before) == w

\* the Language documents
LanguageNames == {"en"}

\* the end of on_update: the user's defaults and the process-wide cache keys;
\* frappe.get_doc("Language", ...) raises for a language that does not exist
on_update_defaults(w, d, before) ==
    IF has_value_changed(d, before, "language") /\ d.language # ""
       /\ d.language \notin LanguageNames
    THEN [w EXCEPT !.err = "DoesNotExistError",
                   !.trace = @ \o (IF d.time_zone # "" THEN <<"set_default time_zone">>
                                   ELSE <<>>)]
    ELSE
    [w EXCEPT !.trace =
        @ \o (IF d.time_zone # "" THEN <<"set_default time_zone">> ELSE <<>>)
          \o (IF has_value_changed(d, before, "language")
              THEN IF d.language # "" THEN <<"set_default locale">>
                   ELSE <<"clear_default locale">>
              ELSE <<>>)
          \o (IF has_value_changed(d, before, "enabled")
              THEN <<"delete_key users_for_mentions", "delete_key enabled_users">>
              ELSE IF has_value_changed(d, before, "allow_in_mentions")
                      \/ has_value_changed(d, before, "user_type")
              THEN <<"delete_key users_for_mentions">>
              ELSE <<>>)]

on_update(w, d, before, mail_ok) ==
    Bind(send_password_notification(
             [w EXCEPT !.trace = @ \o <<"share_with_self", "clear_notifications", "clear_cache">>],
             d, d.holder, mail_ok),
         LAMBDA r : [w |-> on_update_defaults(enqueue_jobs(r.w, r.doc), r.doc, before),
                     doc |-> r.doc])

\* what check_enable_disable did to the sessions during validate
apply_logout(w, c) ==
    IF \E i \in DOMAIN c.trace : c.trace[i] = "logout"
    THEN [w EXCEPT !.sessions = @ \ {c.doc.name}]
    ELSE w

\* Document.insert / Document.save of the in-memory document d: before_insert,
\* validate, the database write, after_insert, on_update.  Returns [w, doc].
save_validated(w, c, inserting, mail_ok) ==
    IF c.err # ""
    THEN [w |-> [apply_logout([w EXCEPT !.trace = @ \o c.trace], c)
                    EXCEPT !.err = c.err, !.exc_msg = c.exc_msg],
          doc |-> c.doc]
    ELSE LET w1 == [apply_logout([w EXCEPT !.trace = @ \o c.trace], c)
                       EXCEPT !.users = (c.doc.name :> Row(c.doc)) @@ @,
                              !.auth = @ @@ (c.doc.name :> NoAuth)]
             before == IF inserting \/ c.doc.name \notin DOMAIN w.users THEN NoRowBefore
                       ELSE w.users[c.doc.name]
         IN Bind(on_update(IF inserting THEN after_insert(w1, c.doc) ELSE w1, c.doc, before,
                           mail_ok),
                 LAMBDA r : [w |-> r.w,
                             doc |-> [r.doc EXCEPT !.islocal = FALSE, !.flags.in_insert = FALSE]])

\* throttle_user_creation, called by before_insert (frappe.flags.in_import is off)
throttle_user_creation(w) ==
    IF tables.UserCreations > tables.conf.throttle_user_limit
    THEN [w EXCEPT !.err = "ValidationError", !.exc_msg = "Throttled"]
    ELSE w

save(w, d, in_test, order, mail_ok) ==
    IF d.islocal /\ throttle_user_creation(w).err # ""
    THEN [w |-> throttle_user_creation(w), doc |-> [d EXCEPT !.flags.in_insert = TRUE]]
    ELSE Bind(validate(IF d.islocal THEN [d EXCEPT !.flags.in_insert = TRUE] ELSE d,
                       in_test, order),
              LAMBDA c : save_validated(w, c, d.islocal, mail_ok))

-----------------------------------------------------------------------------
(* The update_password endpoint *)

\* today(): the date does not change within the seconds the clock covers; the
\* rows start with last_password_reset_date unset (0)
today == 1

\* login_manager.check_password: the stored hash is the hash of the password
check_password(w, user, pwd) == user \in DOMAIN w.auth /\ w.auth[user] = passlibhash(pwd)

ExpiredMessage == "The reset password link has been expired"
InvalidMessage == "The reset password link has either been used before or is invalid"

\* variant: the link already expires at the end of the window
link_expired_at_window_end(generated_on, expiry) ==
    expiry # 0 /\ now >= generated_on + expiry

\* now_datetime() > last_reset_password_key_generated_on + timedelta(seconds=expiry)
link_expired(generated_on, expiry) == expiry # 0 /\ now > generated_on + expiry

\* the rows frappe.db.get_value finds for a stored key
users_with_key(rows, hashed_key) ==
    {n \in DOMAIN rows : rows[n].reset_password_key = hashed_key}

\* variant: without key and old_password the session user is taken
get_user_for_update_password_takes_session(w, key, old_password) ==
    IF key # 0
    THEN LET found == users_with_key(w.users, sha256_hash(key))
         IN IF found # {}
            THEN LET user == CHOOSE n \in found : TRUE
                 IN [user |-> user, err |-> "",
                     message |->
                        IF link_expired(w.users[user].last_reset_password_key_generated_on,
                                        system_settings.reset_password_link_expiry_duration)
                        THEN ExpiredMessage ELSE ""]
            ELSE [user |-> "", err |-> "", message |-> InvalidMessage]
    ELSE IF old_password # NoPassword
    THEN IF check_password(w, w.session, old_password)
         THEN [user |-> w.session, err |-> "", message |-> ""]
         ELSE [user |-> "", err |-> "AuthenticationError", message |-> ""]
    ELSE [user |-> w.session, err |-> "", message |-> ""]

\* returns [user, message, err]; user "" when the result holds no user
get_user_for_update_password(w, key, old_password) ==
    IF key # 0
    THEN LET found == users_with_key(w.users, sha256_hash(key))
         IN IF found # {}
            THEN LET user == CHOOSE n \in found : TRUE
                 IN [user |-> user, err |-> "",
                     message |->
                        IF link_expired(w.users[user].last_reset_password_key_generated_on,
                                        system_settings.reset_password_link_expiry_duration)
                        THEN ExpiredMessage ELSE ""]
            ELSE [user |-> "", err |-> "", message |-> InvalidMessage]
    ELSE IF old_password # NoPassword
    THEN IF check_password(w, w.session, old_password)
         THEN [user |-> w.session, err |-> "", message |-> ""]
         ELSE [user |-> "", err |-> "AuthenticationError", message |-> ""]
    ELSE [user |-> "", err |-> "", message |-> ""]

\* reset_user_data: load the user, clear reset_password_key and redirect_url, save
reset_user_data(w, user, order) ==
    save(w, [get_doc(w.users, user) EXCEPT !.reset_password_key = 0, !.redirect_url = ""],
         FALSE, order, TRUE)

login_as(w, user) ==
    [w EXCEPT !.session = user, !.sessions = @ \cup {user}, !.trace = Append(@, "login_as")]

\* variant: the password is set and the user logged in, the stored key stays
set_new_password_keeps_key(w, user, new_password, logout_all_sessions, key, order) ==
    Bind(update_password_in_store(w, user, new_password,
             IF logout_all_sessions # 0 THEN logout_all_sessions
             ELSE system_settings.logout_on_password_reset),
         LAMBDA w1 :
            [login_as(w1, user) EXCEPT
                !.users[user].last_password_reset_date = today,
                !.redeemed = IF key # 0 THEN @ \cup {key} ELSE @,
                !.ret = IF w1.users[user].user_type = "System User" THEN "/app" ELSE "/me"])

\* the statements of update_password after the user was found
set_new_password(w, user, new_password, logout_all_sessions, key, order) ==
    Bind(reset_user_data(
             update_password_in_store(w, user, new_password,
                 IF logout_all_sessions # 0 THEN logout_all_sessions
                 ELSE system_settings.logout_on_password_reset),
             user, order),
         LAMBDA r :
            IF r.w.err # "" THEN r.w
            ELSE [login_as(r.w, user) EXCEPT
                    !.users[user].last_password_reset_date = today,
                    !.users[user].reset_password_key = 0,
                    !.redeemed = IF key # 0 THEN @ \cup {key} ELSE @,
                    !.ret = IF r.doc.user_type = "System User" THEN "/app" ELSE "/me"])

\* the size check that opens update_password
password_size_exceeded(new_password) == new_password.size > MAX_PASSWORD_SIZE

\* variant: the message of the lookup does not end the request
update_password_found_ignores_message(w, res, new_password, logout_all_sessions, key, order) ==
    IF res.err # "" THEN Throw(w, res.err)
    ELSE IF res.user = ""
    THEN [w EXCEPT !.http_status_code = 410, !.message = res.message]
    ELSE [set_new_password(w, res.user, new_password, logout_all_sessions, key, order)
            EXCEPT !.http_status_code = IF res.message # "" THEN 410 ELSE @,
                   !.message = res.message]

update_password_found(w, res, new_password, logout_all_sessions, key, order) ==
    IF res.err # "" THEN Throw(w, res.err)
    ELSE IF res.message # ""
    THEN [w EXCEPT !.http_status_code = 410, !.message = res.message]
    ELSE IF res.user = "" THEN Throw(w, "KeyError")
    ELSE set_new_password(w, res.user, new_password, logout_all_sessions, key, order)

update_password_checked(w, result, new_password, logout_all_sessions, key, old_password, order) ==
    IF result.kind = "none" THEN Throw(w, "AttributeError")
    ELSE IF result.kind = "result" /\ ~result.feedback.password_policy_validation_passed
    THEN handle_password_test_fail(w, result.feedback)
    ELSE Bind(get_user_for_update_password(w, key, old_password),
              LAMBDA res : update_password_found(Did(w, "_get_user_for_update_password"), res,
                                                 new_password, logout_all_sessions, key, order))

\* variant: the size check comes after the strength evaluation
update_password_checks_size_late(w, new_password, logout_all_sessions, key, old_password, order) ==
    Bind(test_password_strength(new_password),
         LAMBDA result :
            IF password_size_exceeded(new_password)
            THEN Throw(Did(w, "test_password_strength"),
                       "Password size exceeded the maximum allowed size.")
            ELSE update_password_checked(Did(w, "test_password_strength"), result,
                     new_password, logout_all_sessions, key, old_password, order))

update_password(w, new_password, logout_all_sessions, key, old_password, order) ==
    IF password_size_exceeded(new_password)
    THEN Throw(w, "Password size exceeded the maximum allowed size.")
    ELSE Bind(test_password_strength(new_password),
              LAMBDA result : update_password_checked(Did(w, "test_password_strength"), result,
                                  new_password, logout_all_sessions, key, old_password, order))

-----------------------------------------------------------------------------
(* The pipeline specification: one in-memory document, drawn from the       *)
(* bounded inputs, is saved (inserted when new) and saved again.            *)

MaxSaves == 2

UserNames == STANDARD_USERS \cup WellFormedEmails

InputNames == UserNames \cup {"not-an-email"}

\* the roles a saved document is given: the catalog without the administrative
\* role, and a row with no role
RoleInputs == (RoleNames \ {"System Manager"}) \cup {""}

PasswordInputs == {NoPassword, WeakPassword, GoodPassword}

\* frappe.local.conf.get("throttle_user_limit", 60)
default_throttle_user_limit == 60

\* the other doctypes without rows, the single doctypes and the site config at
\* their defaults; UserCreations is get_creation_count("User", 60)
NoTables ==
    [ ToDo |-> {}, Event |-> {}, DocShare |-> {}, Communication |-> {}, Contact |-> {},
      NotificationSettings |-> {}, UserPermission |-> {}, OAuthAuthorizationCode |-> {},
      TokenCache |-> {}, EnergyPointLog |-> {}, WorkflowAction |-> {}, ListFilter |-> {},
      Note |-> {}, Owned |-> {}, ActivityLog |-> {}, NotificationLog |-> {},
      Jobs |-> {}, Cache |-> [enabled_users |-> <<>>, users_for_mentions |-> <<>>],
      PortalSettings |-> [default_role |-> ""],
      WebsiteSettings |-> [disable_signup |-> 0],
      UserCreations |-> 0,
      conf |-> [throttle_user_limit |-> default_throttle_user_limit] ]

\* the row of a user that exists before the first step
BaseRow(n) ==
    [ name |-> n, email |-> IF n \in STANDARD_USERS THEN "" ELSE n,
      first_name |-> "Ann", last_name |-> "", full_name |-> <<"Ann">>,
      new_password |-> NoPassword,
      roles |-> IF n = "Guest" THEN <<"Guest">> ELSE IF n = "Administrator" THEN <<"Desk">> ELSE <<>>,
      role_profiles |-> <<>>, role_profile_name |-> "",
      user_type |-> IF n = "Administrator" THEN "System User" ELSE "Website User",
      enabled |-> 1, send_welcome_email |-> 0,
      thread_notify |-> 1, send_me_a_copy |-> 0, allowed_in_mentions |-> 1,
      logout_all_sessions |-> 0,
      reset_password_key |-> 0, last_reset_password_key_generated_on |-> 0,
      last_password_reset_date |-> 0, redirect_url |-> "",
      api_key |-> 0, api_secret |-> 0,
      username |-> "", user_emails |-> <<>>, module_profile |-> "", block_modules |-> <<>>,
      user_image |-> NoImage, time_zone |-> system_timezone, language |-> "en",
      social_logins |-> IF n \in STANDARD_USERS THEN <<>>
                        ELSE <<[provider |-> "frappe", userid |-> 1]>> ]

InputDoc(n, r, rp, rpn, ut, en, pw, swe, new, ipp) ==
    [BaseRow(n) EXCEPT !.roles = r, !.role_profiles = rp, !.role_profile_name = rpn,
                       !.user_type = ut, !.enabled = en, !.new_password = pw,
                       !.send_welcome_email = swe]
      @@ [holder |-> NoPassword, islocal |-> new,
          flags |-> [NoFlags EXCEPT !.ignore_password_policy = ipp]]

\* updates of an existing user that vary the authorization fields
AuthorizationInputs ==
    { InputDoc(n, r, rp, rpn, ut, en, NoPassword, 0, FALSE, FALSE) :
        n \in UserNames, r \in SeqsUpTo(RoleInputs, MaxRoles),
        rp \in SeqsUpTo(RoleProfileNames, MaxRoleProfiles),
        rpn \in {"", "Alumni"}, ut \in UserTypeNames \cup {""}, en \in {1} }

\* inserts and updates that vary the credential fields
CredentialInputs ==
    { InputDoc(n, r, <<>>, "", ut, en, pw, swe, new, ipp) :
        n \in InputNames, r \in {<<>>, <<"Desk">>}, ut \in {"", "System User"},
        en \in {0, 1}, pw \in PasswordInputs, swe \in {0, 1}, new \in BOOLEAN,
        ipp \in BOOLEAN }

InitValidate ==
    /\ \/ doc \in AuthorizationInputs /\ login_manager = TRUE
       \/ /\ doc \in {d \in CredentialInputs : d.name \in UserNames \/ d.islocal}
          /\ login_manager \in (IF doc.enabled = 0 THEN BOOLEAN ELSE {TRUE})
    /\ tables = NoTables
    /\ users = [n \in UserNames \ (IF doc.islocal THEN {doc.name} ELSE {}) |-> BaseRow(n)]
    /\ auth = [n \in DOMAIN users |-> passlibhash(OtherPassword)]
    /\ sessions = DOMAIN users
    /\ session = "Administrator"
    /\ now = 0
    /\ hash_count = 0
    /\ outbox = <<>>
    /\ call = [op |-> "none", n |-> 0, input |-> doc]
    /\ resp = NoResp
    /\ redeemed = {}
    /\ system_settings \in {x \in SystemSettingsInputs :
                               x.enable_password_policy = 1
                               /\ x.reset_password_link_expiry_duration = 0}

\* the end of a request: an exception rolls the database transaction back
Commit(w) ==
    /\ users' = IF w.err # "" THEN users ELSE w.users
    /\ auth' = IF w.err # "" THEN auth ELSE w.auth
    /\ sessions' = w.sessions
    /\ session' = w.session
    /\ hash_count' = w.hash_count
    /\ outbox' = w.outbox
    /\ redeemed' = w.redeemed
    /\ resp' = [err |-> w.err, exc_msg |-> w.exc_msg, trace |-> w.trace, message |-> w.message,
                http_status_code |-> w.http_status_code, link |-> w.link, ret |-> w.ret]

\* the User rows created in the last hour, after a request that left w
created(w) ==
    IF w.err # "" THEN tables
    ELSE [tables EXCEPT !.UserCreations = @ + Cardinality(DOMAIN w.users \ DOMAIN users)]

\* frappe.cache.delete_key(key) was called in the request
deleted_key(w, key) == \E i \in DOMAIN w.trace : w.trace[i] = "delete_key " \o key

\* a variant that hands the jobs to the queue at once
tables_after_enqueue_now(w) ==
    [created(w) EXCEPT
        !.Jobs = @ \cup w.after_commit,
        !.Cache = [k \in DOMAIN @ |-> IF deleted_key(w, k) THEN <<>> ELSE @[k]]]

\* the tables a request that ended as w leaves: the jobs it enqueued reach the
\* queue only if it commits, the cache keys it deleted are gone either way
tables_after(w) ==
    [created(w) EXCEPT
        !.Jobs = IF w.err # "" THEN @ ELSE @ \cup w.after_commit,
        !.Cache = [k \in DOMAIN @ |-> IF deleted_key(w, k) THEN <<>> ELSE @[k]]]

\* sendmail can fail only where a mail is sent
MailOutcomes(d) == IF d.send_welcome_email # 0 THEN BOOLEAN ELSE {TRUE}

\* doc.insert() or doc.save() outside test mode
Save ==
    /\ call.n < MaxSaves
    /\ hash_count < MaxHashes
    /\ \E order \in RoleOrders(doc), mail_ok \in MailOutcomes(doc) :
          \E r \in {save(World, doc, FALSE, order, mail_ok)} :
             /\ Commit(r.w)
             /\ doc' = r.doc
             /\ call' = [op |-> "save", n |-> call.n + 1, input |-> doc]
             /\ tables' = tables_after(r.w)
    /\ UNCHANGED <<now, system_settings, login_manager>>

NextValidate == Save

SpecValidate == InitValidate /\ [][NextValidate]_vars

-----------------------------------------------------------------------------
(* The reset-token specification: the stored users, the clock, calls of     *)
(* User.reset_password and requests to update_password.                     *)

NoDoc == InputDoc("Guest", <<"Guest">>, <<>>, "", "Website User", 1, NoPassword, 0, FALSE, FALSE)

\* the users a reset is requested for
ResetTargets == {"a@x.org"}

\* the operation of the last step and its arguments
NoCall == [op |-> "none", user |-> "", key |-> 0, new_password |-> NoPassword,
           old_password |-> NoPassword]

NewPasswordInputs == {NoPassword, WeakPassword, GoodPassword, HugePassword}

OldPasswordInputs == {NoPassword, OtherPassword, GoodPassword}

Init ==
    /\ login_manager = TRUE
    /\ tables = NoTables
    /\ users = [n \in UserNames |-> BaseRow(n)]
    /\ auth = [n \in UserNames |-> passlibhash(OtherPassword)]
    /\ doc = NoDoc
    /\ sessions = {}
    /\ session = "Guest"
    /\ now = 0
    /\ hash_count = 0
    /\ outbox = <<>>
    /\ system_settings \in {x \in SystemSettingsInputs : x.enable_password_policy = 1}
    /\ redeemed = {}
    /\ call = NoCall
    /\ resp = NoResp

Tick ==
    /\ now < MaxTime
    /\ now' = now + 1
    /\ call' = [NoCall EXCEPT !.op = "tick"]
    /\ resp' = NoResp
    /\ UNCHANGED <<users, auth, doc, sessions, session, hash_count, outbox, system_settings,
                   redeemed, login_manager, tables>>

\* frappe.get_doc("User", user).reset_password(send_email, password_expired)
UserResetPassword ==
    /\ hash_count < MaxHashes
    /\ \E user \in ResetTargets, send_email \in BOOLEAN :
          \E mail_ok \in (IF send_email THEN BOOLEAN ELSE {TRUE}),
             password_expired \in (IF send_email THEN {FALSE} ELSE BOOLEAN) :
             \E r \in {reset_password_of(World, get_doc(users, user), send_email,
                                         password_expired, mail_ok)} :
                /\ Commit(r.w)
                /\ call' = [NoCall EXCEPT !.op = "User.reset_password", !.user = user]
    /\ UNCHANGED <<doc, now, system_settings, login_manager, tables>>

\* a POST to update_password with these arguments
UpdatePasswordWith(new_password, logout_all_sessions, key, old_password) ==
    /\ \E r \in {update_password(World, new_password, logout_all_sessions, key,
                                 old_password, <<>>)} :
          /\ Commit(r)
          /\ tables' = tables_after(r)
          /\ call' = [NoCall EXCEPT !.op = "update_password", !.key = key,
                                     !.new_password = new_password,
                                     !.old_password = old_password]
    /\ UNCHANGED <<doc, now, system_settings, login_manager>>

\* old_password is read only when no key is sent
UpdatePassword ==
    \E new_password \in NewPasswordInputs, logout_all_sessions \in {0, 1},
       key \in KeyInputs(users) :
       \E old_password \in (IF key = 0 THEN OldPasswordInputs ELSE {NoPassword}) :
          UpdatePasswordWith(new_password, logout_all_sessions, key, old_password)

Next == Tick \/ UserResetPassword \/ UpdatePassword

Spec == Init /\ [][Next]_vars

-----------------------------------------------------------------------------
(* Properties of the pipeline specification *)

HasDuplicate(q) == \E i, j \in DOMAIN q : i < j /\ q[i] = q[j]

\* the last step was a save whose validate completed
Saved == call.op = "save" /\ resp.err = ""

IsStandardTypeOrUnset(t) == t = "" \/ UserTypeDoc(t).is_standard = 1

\* C6: after any save, insert or update, with any submitted new_password, the
\* persisted new_password of every user is empty; the submitted value is held
\* only by the transient __new_password of the in-memory document.
C6_NewPasswordNotPersisted ==
    /\ \A n \in DOMAIN users : users[n].new_password = NoPassword
    /\ call.op = "save" =>
          /\ doc.new_password = NoPassword
          /\ doc.holder = call.input.new_password

C6_Witness ==
    /\ Saved
    /\ call.input.new_password = GoodPassword
    /\ call.input.islocal
    /\ doc.name \in DOMAIN users
    /\ doc.holder = GoodPassword

\* C7: after validate completes, roles has no two rows with the same role and no
\* row with an empty role, and role_profiles has no two rows with the same
\* profile, in the document and in the row written.
C7_UniqueRolesAndProfiles ==
    Saved =>
        /\ ~HasDuplicate(doc.roles)
        /\ "" \notin Range(doc.roles)
        /\ ~HasDuplicate(doc.role_profiles)
        /\ users[doc.name].roles = doc.roles
        /\ users[doc.name].role_profiles = doc.role_profiles

C7_Witness ==
    /\ Saved
    /\ HasDuplicate(call.input.roles)
    /\ "" \notin Range(call.input.roles)
    /\ HasDuplicate(call.input.role_profiles)
    /\ doc.role_profiles # <<>>

C7_WitnessEmptyRow ==
    /\ Saved
    /\ "" \in Range(call.input.roles)
    /\ doc.roles # <<>>

\* C8 as stated: for a non-reserved user with role_profiles, after validate the
\* set of roles is exactly the union of the roles of the assigned profiles.
C8_RolesAreProfileUnion ==
    (Saved /\ doc.name \notin STANDARD_USERS /\ doc.role_profiles # <<>>)
        => Range(doc.roles) = new_roles(doc)

\* C8 amended: for a non-reserved user with role_profiles whose user_type is
\* unset, a standard type or a custom type without a fixed role, after validate
\* the set of roles is the union of the roles of the assigned profiles less the
\* globally disabled roles.
C8_RolesAreEnabledProfileUnion ==
    (/\ Saved
     /\ doc.name \notin STANDARD_USERS
     /\ doc.role_profiles # <<>>
     /\ (IsStandardTypeOrUnset(call.input.user_type)
           \/ UserTypeDoc(call.input.user_type).role = ""))
        => Range(doc.roles) = {r \in new_roles(doc) : RoleTable[r].disabled = 0}

C8_Witness ==
    /\ Saved
    /\ doc.name \notin STANDARD_USERS
    /\ call.input.user_type = ""
    /\ doc.role_profiles = <<"Staff">>
    /\ call.input.roles = <<"Guest">>
    /\ Range(doc.roles) = {"Desk", "Portal"}

\* C9: after validate completes for a user whose user_type was unset or a
\* standard type, user_type is "System User" if and only if the final roles hold
\* a role flagged desk_access, and "Website User" otherwise.
C9_UserTypeFollowsFinalRoles ==
    (Saved /\ IsStandardTypeOrUnset(call.input.user_type))
        => doc.user_type = (IF has_desk_access(doc) THEN "System User" ELSE "Website User")

\* C10: after validate completes, Administrator has user_type "System User" and
\* Guest has user_type "Website User", whatever the input carried.
C10_StandardUserTypeFixed ==
    Saved =>
        /\ doc.name = "Administrator" => doc.user_type = "System User"
        /\ doc.name = "Guest" => doc.user_type = "Website User"

-----------------------------------------------------------------------------
(* Properties of the reset-token specification *)

\* the tokens generate_hash has handed out so far
IssuedTokens == 1 .. hash_count

\* the users whose stored reset_password_key is the hash of this raw token
Holders(key) == {n \in DOMAIN users : users[n].reset_password_key = sha256_hash(key)}

\* the link of this user's stored key is past the configured duration
Expired(n) ==
    /\ system_settings.reset_password_link_expiry_duration > 0
    /\ now > users[n].last_reset_password_key_generated_on
               + system_settings.reset_password_link_expiry_duration

\* a password update_password lets through to the lookup
AcceptablePassword(pwd) ==
    /\ pwd.size <= MAX_PASSWORD_SIZE
    /\ \/ system_settings.enable_password_policy = 0
       \/ /\ pwd # NoPassword
          /\ pwd.score > 0
          /\ pwd.score >= system_settings.minimum_password_score

\* the step is a request to update_password carrying a key
KeyedUpdate == call'.op = "update_password" /\ call'.key # 0

Redeems(n) ==
    /\ resp'.err = ""
    /\ resp'.message = ""
    /\ resp'.http_status_code = 200
    /\ auth'[n] = passlibhash(call'.new_password)
    /\ users'[n].reset_password_key = 0
    /\ session' = n

\* C1: a request to update_password with the raw token a user's stored key was
\* issued for, an acceptable new password and the link not expired, sets that
\* user's password and clears reset_password_key; every later request with the
\* same token and an acceptable password finds no user and returns the "used
\* before or is invalid" message with status 410, and no later request with
\* that token changes a password.
C1_ResetTokenSingleUse ==
    [][KeyedUpdate =>
          /\ AcceptablePassword(call'.new_password) =>
                /\ \A n \in Holders(call'.key) :
                      ~Expired(n) => (Redeems(n) /\ call'.key \in redeemed')
                /\ call'.key \in redeemed =>
                      /\ Holders(call'.key) = {}
                      /\ resp'.message = InvalidMessage
                      /\ resp'.http_status_code = 410
          /\ call'.key \in redeemed => auth' = auth]_vars

C1_Witness ==
    /\ call.op = "update_password"
    /\ call.key \in redeemed
    /\ call.key \in IssuedTokens
    /\ resp.message = InvalidMessage
    /\ resp.http_status_code = 410
    /\ \E n \in DOMAIN users : auth[n] = passlibhash(GoodPassword)

\* C2: a request whose key matches a stored hash is rejected as expired if and
\* only if reset_password_link_expiry_duration is greater than 0 and the time
\* is later than last_reset_password_key_generated_on plus that duration;
\* otherwise it is redeemed.
C2_ResetTokenExpiry ==
    [][(KeyedUpdate /\ AcceptablePassword(call'.new_password)) =>
          \A n \in Holders(call'.key) :
             /\ (resp'.message = ExpiredMessage) <=> Expired(n)
             /\ (resp'.http_status_code = 410) <=> Expired(n)
             /\ Redeems(n) <=> ~Expired(n)]_vars

\* rejected one second after the window closed
C2_Witness ==
    /\ call.op = "update_password"
    /\ resp.message = ExpiredMessage
    /\ system_settings.reset_password_link_expiry_duration = ExpiryWindow
    /\ \E n \in Holders(call.key) :
          now = users[n].last_reset_password_key_generated_on + ExpiryWindow + 1

\* redeemed one second before the window closes
C2_WitnessInsideWindow ==
    /\ call.op = "update_password"
    /\ call.key \in redeemed
    /\ resp.ret # ""
    /\ system_settings.reset_password_link_expiry_duration = ExpiryWindow
    /\ now = users[session].last_reset_password_key_generated_on + ExpiryWindow - 1

\* redeemed long after issue when the duration is 0
C2_WitnessNoExpiry ==
    /\ call.op = "update_password"
    /\ call.key \in redeemed
    /\ resp.ret # ""
    /\ system_settings.reset_password_link_expiry_duration = 0
    /\ now > users[session].last_reset_password_key_generated_on + ExpiryWindow

\* C3: in every reachable state a user's stored reset_password_key is empty or
\* the SHA-256 hash of a token User.reset_password issued, never a raw token;
\* the link User.reset_password returns, and the link it mails, carries the raw
\* token and never the stored hash.
C3_StoredKeyIsHashOfIssuedToken ==
    /\ \A n \in DOMAIN users :
          \/ users[n].reset_password_key = 0
          \/ /\ \E t \in IssuedTokens : users[n].reset_password_key = sha256_hash(t)
             /\ users[n].reset_password_key \notin IssuedTokens
    /\ (call.op = "User.reset_password" /\ resp.err = "") =>
          /\ resp.link.key \in IssuedTokens
          /\ users[call.user].reset_password_key = sha256_hash(resp.link.key)
          /\ resp.link.key # users[call.user].reset_password_key
    /\ \A i \in DOMAIN outbox :
          /\ outbox[i].link.key \in IssuedTokens
          /\ \A n \in DOMAIN users :
                users[n].reset_password_key = 0
                  \/ outbox[i].link.key # users[n].reset_password_key

C3_Witness ==
    /\ call.op = "User.reset_password"
    /\ resp.err = ""
    /\ resp.link.key = hash_count
    /\ hash_count > 0
    /\ users[call.user].reset_password_key = sha256_hash(hash_count)
    /\ outbox # <<>>

\* the key of the request matches no stored hash, or its link is expired
InvalidOrExpired ==
    \/ Holders(call'.key) = {}
    \/ \E n \in Holders(call'.key) : Expired(n)

NothingWritten ==
    /\ auth' = auth
    /\ users' = users
    /\ session' = session
    /\ sessions' = sessions
    /\ outbox' = outbox

Returns410 ==
    /\ resp'.err = ""
    /\ resp'.http_status_code = 410
    /\ resp'.message = (IF Holders(call'.key) = {} THEN InvalidMessage ELSE ExpiredMessage)
    /\ resp'.ret = ""

\* C4 as stated: update_password called with a key that matches no stored hash
\* or is expired returns the message with status 410 and has no other effect.
C4_InvalidKeyReturns410 ==
    [][(KeyedUpdate /\ InvalidOrExpired) => (Returns410 /\ NothingWritten)]_vars

\* C4 amended: update_password called with a new_password that passes the size
\* and strength checks and a key that matches no stored hash or is expired
\* returns the message with status 410 and has no other effect; with a
\* new_password that fails those checks the request raises before the key is
\* looked up, with no effect either.
C4_InvalidKeyReturns410AfterPasswordChecks ==
    [][(KeyedUpdate /\ InvalidOrExpired) =>
          /\ NothingWritten
          /\ IF AcceptablePassword(call'.new_password)
             THEN Returns410
             ELSE /\ resp'.err # ""
                  /\ resp'.http_status_code = 200
                  /\ "_get_user_for_update_password" \notin Range(resp'.trace)]_vars

\* a key that was never stored, or was replaced by a later one, is turned away
C4_Witness ==
    /\ call.op = "update_password"
    /\ call.key # 0
    /\ call.key \notin redeemed
    /\ call.new_password = GoodPassword
    /\ resp.message = InvalidMessage
    /\ resp.http_status_code = 410
    /\ \E n \in DOMAIN users : users[n].reset_password_key # 0

\* C5: update_password with a new_password longer than MAX_PASSWORD_SIZE fails
\* before the strength evaluation, before the token or old-password lookup and
\* before any hashing, and changes no state.
C5_OversizedPasswordFailsFirst ==
    [][(call'.op = "update_password" /\ call'.new_password.size > MAX_PASSWORD_SIZE) =>
          /\ resp'.err = "Password size exceeded the maximum allowed size."
          /\ resp'.trace = <<>>
          /\ UNCHANGED <<users, auth, sessions, session, outbox, hash_count, redeemed,
                         doc, now, system_settings>>]_vars

C5_Witness ==
    /\ call.op = "update_password"
    /\ call.new_password = HugePassword
    /\ \E n \in Holders(call.key) : ~Expired(n)
    /\ resp.err = "Password size exceeded the maximum allowed size."
    /\ resp.trace = <<>>

-----------------------------------------------------------------------------
(* Further properties of the pipeline specification *)

\* the input's user_type is a non-standard User Type that defines a fixed role
HasFixedRoleType(d) ==
    /\ d.user_type # ""
    /\ UserTypeDoc(d.user_type).is_standard = 0
    /\ UserTypeDoc(d.user_type).role # ""

\* no other step of validate edits these roles: no profile is assigned, no row
\* is empty, repeated or globally disabled
RolesUntouchedByOtherSteps(d) ==
    /\ d.role_profiles = <<>>
    /\ d.role_profile_name = ""
    /\ ~HasDuplicate(d.roles)
    /\ \A r \in Range(d.roles) : r \in RoleNames /\ RoleTable[r].disabled = 0

\* C11: for a non-reserved user whose user_type is a non-standard User Type
\* with a fixed role, after validate roles is exactly that role if the user
\* passes the permission-linkage check, and is what it was if the user does not.
C11_FixedRoleOrRolesKept ==
    (/\ Saved
     /\ doc.name \notin STANDARD_USERS
     /\ HasFixedRoleType(call.input)
     /\ RolesUntouchedByOtherSteps(call.input))
        => IF doc.name \in UserTypeDoc(call.input.user_type).linked
           THEN doc.roles = <<UserTypeDoc(call.input.user_type).role>>
           ELSE doc.roles = call.input.roles

-----------------------------------------------------------------------------
(* The password-policy specification: User.password_strength_test applied   *)
(* to one candidate password under every policy setting.                    *)

MaxScore == 4          \* the strength estimator scores 0..MaxScore
MaxSuggestions == 2    \* suggestions a feedback may carry

WarningInputs == {"", "This is a common password."}

SuggestionInputs == {"Add another word.", "Avoid repeats."}

CandidatePasswords ==
    { Password("candidate", 8, score, warning, suggestions) :
        score \in 0..MaxScore, warning \in WarningInputs,
        suggestions \in SeqsUpTo(SuggestionInputs, MaxSuggestions) }

PolicySettings ==
    { [ enable_password_policy |-> p, minimum_password_score |-> m,
        logout_on_password_reset |-> 0, reset_password_link_expiry_duration |-> 0 ] :
        p \in {0, 1}, m \in 0..MaxScore }

InitStrength ==
    /\ login_manager = TRUE
    /\ tables = NoTables
    /\ users = [n \in UserNames |-> BaseRow(n)]
    /\ auth = [n \in UserNames |-> passlibhash(OtherPassword)]
    /\ \E pwd \in CandidatePasswords, ipp \in BOOLEAN :
          doc = [NoDoc EXCEPT !.name = "a@x.org", !.email = "a@x.org", !.roles = <<>>,
                              !.holder = pwd, !.flags.ignore_password_policy = ipp]
    /\ sessions = {}
    /\ session = "Administrator"
    /\ now = 0
    /\ hash_count = 0
    /\ outbox = <<>>
    /\ system_settings \in PolicySettings
    /\ redeemed = {}
    /\ call = NoCall
    /\ resp = NoResp

\* self.password_strength_test(), the second statement of validate
PasswordStrengthTest ==
    /\ call.op = "none"
    /\ \E c \in {password_strength_test([doc |-> doc, err |-> "", exc_msg |-> "",
                                         trace |-> <<>>])} :
          /\ resp' = [NoResp EXCEPT !.err = c.err, !.exc_msg = c.exc_msg, !.trace = c.trace]
          /\ doc' = c.doc
    /\ call' = [NoCall EXCEPT !.op = "password_strength_test", !.new_password = doc.holder]
    /\ UNCHANGED <<users, auth, sessions, session, now, hash_count, outbox, system_settings,
                   redeemed, login_manager, tables>>

NextStrength == PasswordStrengthTest

SpecStrength == InitStrength /\ [][NextStrength]_vars

\* the policy was applied to the candidate
PolicyApplied ==
    /\ call.op = "password_strength_test"
    /\ system_settings.enable_password_policy = 1
    /\ ~doc.flags.ignore_password_policy

\* a, then each element of rest after a space
RECURSIVE SpacedAfter(_, _)
SpacedAfter(a, rest) ==
    IF rest = <<>> THEN a ELSE SpacedAfter(a \o " " \o Head(rest), Tail(rest))

RejectedWithFeedback ==
    /\ resp.err = "Invalid Password"
    /\ resp.exc_msg = SpacedAfter(call.new_password.warning, call.new_password.suggestions)

\* C12 as stated: with the policy enabled a non-empty candidate is accepted if
\* and only if its score is greater than or equal to minimum_password_score;
\* a rejected one raises with the warning and the suggestions joined by spaces.
C12_AcceptedIffScoreAtLeastMinimum ==
    PolicyApplied =>
        /\ (resp.err = "") <=>
              (call.new_password.score >= system_settings.minimum_password_score)
        /\ resp.err # "" => RejectedWithFeedback

\* C12 amended: with the policy enabled a non-empty candidate is accepted if
\* and only if its score is greater than 0 and greater than or equal to
\* minimum_password_score (a score of 0 is rejected even with a minimum of 0);
\* a rejected one raises with the warning and the suggestions joined by spaces.
C12_AcceptedIffScorePositiveAndAtLeastMinimum ==
    PolicyApplied =>
        /\ (resp.err = "") <=>
              /\ call.new_password.score > 0
              /\ call.new_password.score >= system_settings.minimum_password_score
        /\ resp.err # "" => RejectedWithFeedback

\* a candidate whose score equals the minimum is accepted
C12_Witness ==
    /\ PolicyApplied
    /\ call.new_password.score = system_settings.minimum_password_score
    /\ call.new_password.score > 0
    /\ resp.err = ""

\* a candidate one below the minimum is rejected with its feedback
C12_WitnessRejected ==
    /\ PolicyApplied
    /\ call.new_password.score + 1 = system_settings.minimum_password_score
    /\ Len(call.new_password.suggestions) = MaxSuggestions
    /\ call.new_password.warning # ""
    /\ RejectedWithFeedback

-----------------------------------------------------------------------------
(* Properties of the pipeline specification: reserved identities *)

\* the last step was a save of Administrator or Guest with enabled false
SavedReservedDisabled ==
    /\ call.op = "save"
    /\ call.input.name \in STANDARD_USERS
    /\ call.input.enabled = 0

C14_GuestHoldsOnlyGuestRole ==
    (Saved /\ doc.name = "Guest") =>
        /\ \A r \in Range(doc.roles) : r = "Guest"
        /\ users["Guest"].roles = doc.roles

C14_Witness ==
    /\ Saved
    /\ doc.name = "Guest"
    /\ "Desk" \in Range(call.input.roles)
    /\ "Guest" \in Range(call.input.roles)
    /\ call.input.role_profiles # <<>>
    /\ call.input.user_type = "Member Type"
    /\ doc.roles = <<"Guest">>

-----------------------------------------------------------------------------
(* The deletion specification: frappe.delete_doc("User", name) runs         *)
(* User.on_trash statement by statement and then deletes the row.           *)

\* the rows a ToDo table may start with: [name, allocated_to, assigned_by]
ToDoInputs ==
    { [name |-> "T1", allocated_to |-> "a@x.org", assigned_by |-> "b@x.org"],
      [name |-> "T2", allocated_to |-> "b@x.org", assigned_by |-> "a@x.org"],
      [name |-> "T3", allocated_to |-> "b@x.org", assigned_by |-> "b@x.org"] }

DocShareInputs ==
    { [user |-> "a@x.org", share_name |-> "a@x.org"],
      [user |-> "b@x.org", share_name |-> "a@x.org"] }

\* the other doctypes with rows that reference both users
TrashFixture(todo, share) ==
    [ ToDo |-> todo,
      Event |-> { [owner |-> u, event_type |-> e] :
                    u \in WellFormedEmails, e \in {"Private", "Public"} },
      DocShare |-> share,
      Communication |-> { [communication_type |-> "Chat", reference_doctype |-> "User",
                           reference_name |-> u, owner |-> u] : u \in WellFormedEmails },
      Contact |-> { [name |-> "Ann", user |-> "a@x.org"], [name |-> "Bob", user |-> "b@x.org"] },
      NotificationSettings |-> WellFormedEmails,
      UserPermission |-> { [user |-> u, allow |-> "Company"] : u \in WellFormedEmails },
      OAuthAuthorizationCode |-> { [user |-> u] : u \in WellFormedEmails },
      TokenCache |-> { [user |-> u] : u \in WellFormedEmails },
      EnergyPointLog |-> { [user |-> u] : u \in WellFormedEmails },
      WorkflowAction |-> { [name |-> "W1", user |-> "a@x.org"], [name |-> "W2", user |-> "b@x.org"] },
      ListFilter |-> { [for_user |-> u] : u \in WellFormedEmails },
      Note |-> { [name |-> "N1", seen_by |-> WellFormedEmails] },
      Owned |-> {},
      Cache |-> [enabled_users |-> <<>>, users_for_mentions |-> <<>>] ]

\* the cache keys on_trash deletes: users_for_mentions where
\* self.get("allow_in_mentions") is set, enabled_users always
cache_delete_keys(t, name) ==
    [t EXCEPT !.Cache =
        [k \in DOMAIN @ |->
            IF k = "enabled_users"
               \/ (k = "users_for_mentions" /\ name \in DOMAIN users
                   /\ "allow_in_mentions" \in DOMAIN users[name]
                   /\ users[name]["allow_in_mentions"] # 0)
            THEN <<>> ELSE @[k]]]

\* variant: the DocShare rows of the user are kept
on_trash_statement_keeps_shares(i, t, name) ==
    CASE i = 1 -> [t EXCEPT !.ToDo = {r \in @ : r.allocated_to # name}]
      [] i = 2 -> [t EXCEPT !.ToDo =
                      {IF r.assigned_by = name THEN [r EXCEPT !.assigned_by = ""] ELSE r :
                         r \in @}]
      [] i = 3 -> [t EXCEPT !.Event =
                      {r \in @ : ~(r.owner = name /\ r.event_type = "Private")}]
      [] i = 4 -> t
      [] i = 5 -> t
      [] i = 6 -> [t EXCEPT !.Contact =
                      {IF r.user = name THEN [r EXCEPT !.user = ""] ELSE r : r \in @}]
      [] i = 7 -> [t EXCEPT !.NotificationSettings = @ \ {name}]
      [] i = 8 -> cache_delete_keys(t, name)
      [] i = 9 -> [t EXCEPT !.UserPermission = {r \in @ : r.user # name}]
      [] i = 10 -> [t EXCEPT !.OAuthAuthorizationCode = {r \in @ : r.user # name}]
      [] i = 11 -> [t EXCEPT !.TokenCache = {r \in @ : r.user # name}]
      [] i = 12 -> [t EXCEPT !.EnergyPointLog = {r \in @ : r.user # name}]
      [] i = 13 -> [t EXCEPT !.WorkflowAction =
                      {IF r.user = name THEN [r EXCEPT !.user = ""] ELSE r : r \in @}]
      [] i = 14 -> [t EXCEPT !.ListFilter = {r \in @ : r.for_user # name}]
      [] i = 15 -> [t EXCEPT !.Note = {[r EXCEPT !.seen_by = @ \ {name}] : r \in @}]

\* the statements of on_trash after the user was disabled and logged out, in
\* the order of the source; the Communication query is built with run=False
\* and never executed
NumTrashStatements == 15

on_trash_statement(i, t, name) ==
    CASE i = 1 -> [t EXCEPT !.ToDo = {r \in @ : r.allocated_to # name}]
      [] i = 2 -> [t EXCEPT !.ToDo =
                      {IF r.assigned_by = name THEN [r EXCEPT !.assigned_by = ""] ELSE r :
                         r \in @}]
      [] i = 3 -> [t EXCEPT !.Event =
                      {r \in @ : ~(r.owner = name /\ r.event_type = "Private")}]
      [] i = 4 -> [t EXCEPT !.DocShare = {r \in @ : r.user # name}]
      [] i = 5 -> t
      [] i = 6 -> [t EXCEPT !.Contact =
                      {IF r.user = name THEN [r EXCEPT !.user = ""] ELSE r : r \in @}]
      [] i = 7 -> [t EXCEPT !.NotificationSettings = @ \ {name}]
      [] i = 8 -> cache_delete_keys(t, name)
      [] i = 9 -> [t EXCEPT !.UserPermission = {r \in @ : r.user # name}]
      [] i = 10 -> [t EXCEPT !.OAuthAuthorizationCode = {r \in @ : r.user # name}]
      [] i = 11 -> [t EXCEPT !.TokenCache = {r \in @ : r.user # name}]
      [] i = 12 -> [t EXCEPT !.EnergyPointLog = {r \in @ : r.user # name}]
      [] i = 13 -> [t EXCEPT !.WorkflowAction =
                      {IF r.user = name THEN [r EXCEPT !.user = ""] ELSE r : r \in @}]
      [] i = 14 -> [t EXCEPT !.ListFilter = {r \in @ : r.for_user # name}]
      [] i = 15 -> [t EXCEPT !.Note = {[r EXCEPT !.seen_by = @ \ {name}] : r \in @}]

\* the position of a deletion: the user, the statements of on_trash run so far
\* and whether one of them removed or nulled a row
NoTrash == [op |-> "none", user |-> "", step |-> 0, removed |-> FALSE]

InitTrash ==
    /\ users = [n \in UserNames |-> BaseRow(n)]
    /\ auth = [n \in UserNames |-> passlibhash(OtherPassword)]
    /\ doc = NoDoc
    /\ sessions \in {{}, {"Administrator", "a@x.org", "b@x.org"}}
    /\ session = "Administrator"
    /\ now = 0
    /\ hash_count = 0
    /\ outbox = <<>>
    /\ system_settings \in {x \in SystemSettingsInputs :
                               x.enable_password_policy = 1
                               /\ x.reset_password_link_expiry_duration = 0}
    /\ redeemed = {}
    /\ call = NoTrash
    /\ resp = NoResp
    /\ login_manager \in BOOLEAN
    /\ \E todo \in SUBSET ToDoInputs, share \in SUBSET DocShareInputs :
          tables = TrashFixture(todo, share)

\* variant: the user is logged out but the document stays enabled
on_trash_begin_keeps_enabled(d, live) ==
    IF d.name \in STANDARD_USERS
    THEN [doc |-> d, sessions |-> live, err |-> "cannot be deleted"]
    ELSE [doc |-> d,
          sessions |-> IF login_manager THEN live \ {d.name} ELSE live,
          err |-> ""]

\* the opening of on_trash: the reserved names are refused, the document is
\* disabled and, where there is a login manager, the user is logged out
on_trash_begin(d, live) ==
    IF d.name \in STANDARD_USERS
    THEN [doc |-> d, sessions |-> live, err |-> "cannot be deleted"]
    ELSE [doc |-> [d EXCEPT !.enabled = 0],
          sessions |-> IF login_manager THEN live \ {d.name} ELSE live,
          err |-> ""]

\* frappe.delete_doc("User", name) up to the first cascade statement of on_trash
DeleteDoc ==
    /\ call.op = "none"
    /\ \E name \in DOMAIN users :
          \E r \in {on_trash_begin(get_doc(users, name), sessions)} :
             /\ doc' = r.doc
             /\ sessions' = r.sessions
             /\ resp' = [NoResp EXCEPT !.err = r.err, !.trace = <<"clear_cache">>]
             /\ call' = [NoTrash EXCEPT !.op = IF r.err = "" THEN "on_trash" ELSE "failed",
                                        !.user = name]
    /\ UNCHANGED <<users, auth, session, now, hash_count, outbox, system_settings, redeemed,
                   login_manager, tables>>

\* the next cascade statement of on_trash
OnTrashStatement ==
    /\ call.op = "on_trash"
    /\ call.step < NumTrashStatements
    /\ tables' = on_trash_statement(call.step + 1, tables, call.user)
    /\ call' = [call EXCEPT !.step = @ + 1, !.removed = @ \/ tables' # tables]
    /\ UNCHANGED <<users, auth, doc, sessions, session, now, hash_count, outbox,
                   system_settings, redeemed, resp, login_manager>>

\* on_trash has returned: delete_doc removes the row and the stored password
DeleteRow ==
    /\ call.op = "on_trash"
    /\ call.step = NumTrashStatements
    /\ users' = [n \in DOMAIN users \ {call.user} |-> users[n]]
    /\ auth' = [n \in DOMAIN auth \ {call.user} |-> auth[n]]
    /\ call' = [call EXCEPT !.op = "deleted"]
    /\ UNCHANGED <<doc, sessions, session, now, hash_count, outbox, system_settings, redeemed,
                   resp, login_manager, tables>>

NextTrash == DeleteDoc \/ OnTrashStatement \/ DeleteRow

SpecTrash == InitTrash /\ [][NextTrash]_vars

-----------------------------------------------------------------------------
(* Properties of the deletion specification *)

\* the tables of the claim hold no row that references the user
NoResidualRows(name) ==
    /\ \A r \in tables.ToDo : r.allocated_to # name /\ r.assigned_by # name
    /\ \A r \in tables.DocShare : r.user # name
    /\ \A r \in tables.UserPermission : r.user # name
    /\ \A r \in tables.OAuthAuthorizationCode : r.user # name
    /\ \A r \in tables.TokenCache : r.user # name

\* no row of any doctype was removed or changed
NothingRemoved ==
    /\ users = [n \in UserNames |-> BaseRow(n)]
    /\ \E todo \in SUBSET ToDoInputs, share \in SUBSET DocShareInputs :
          tables = TrashFixture(todo, share)

\* C15: deleting Administrator or Guest always fails and removes no record;
\* deleting any other user goes through, and once the user is deleted no ToDo
\* allocated to or assigned by the user, no DocShare, User Permission, OAuth
\* Authorization Code or Token Cache row references the user's name.
C15_DeleteCascade ==
    /\ (call.op # "none" /\ call.user \in STANDARD_USERS) =>
          /\ call.op = "failed"
          /\ resp.err = "cannot be deleted"
          /\ NothingRemoved
    /\ (call.op # "none" /\ call.user \notin STANDARD_USERS) =>
          /\ call.op \in {"on_trash", "deleted"}
          /\ resp.err = ""
    /\ call.op = "deleted" =>
          /\ call.user \notin DOMAIN users
          /\ NoResidualRows(call.user)

C15_Witness ==
    /\ call.op = "deleted"
    /\ call.user = "a@x.org"
    /\ [name |-> "T2", allocated_to |-> "b@x.org", assigned_by |-> ""] \in tables.ToDo
    /\ tables.DocShare = {[user |-> "b@x.org", share_name |-> "a@x.org"]}
    /\ NoResidualRows("a@x.org")
    /\ ~NoResidualRows("b@x.org")

C15_WitnessRefused ==
    /\ call.op = "failed"
    /\ call.user = "Guest"
    /\ tables.ToDo = ToDoInputs

-----------------------------------------------------------------------------
(* The rename specification: frappe.rename_doc("User", old, new, merge)     *)
(* runs before_rename, renames (or merges) the row and runs after_rename.   *)

\* the tables of the database besides tabUser, with their columns: tabNote
\* has owner and modified_by, tabLegacy only owner, tabSingles neither
OwnedInputs ==
    { { [tab |-> "tabNote", name |-> "N1",
         cols |-> [owner |-> o, modified_by |-> m]],
        [tab |-> "tabLegacy", name |-> "L1", cols |-> [owner |-> l]],
        [tab |-> "tabSingles", name |-> "S1", cols |-> [value |-> "a@x.org"]] } :
        o \in {"a@x.org", "b@x.org"}, m \in {"a@x.org", "Administrator"},
        l \in {"a@x.org", "b@x.org"} }

NewNameInputs == UnusedEmails \cup {" c@x.org ", "not-an-email"}

InitRename ==
    /\ users = [n \in UserNames |-> BaseRow(n)]
    /\ auth = [n \in UserNames |-> passlibhash(OtherPassword)]
    /\ doc = NoDoc
    /\ sessions = {}
    /\ session = "Administrator"
    /\ now = 0
    /\ hash_count = 0
    /\ outbox = <<>>
    /\ system_settings \in {x \in SystemSettingsInputs :
                               x.enable_password_policy = 1
                               /\ x.reset_password_link_expiry_duration = 0}
    /\ redeemed = {}
    /\ call = [op |-> "none"]
    /\ resp = NoResp
    /\ login_manager = TRUE
    /\ \E owned \in OwnedInputs, settings \in SUBSET WellFormedEmails :
          tables = [NoTables EXCEPT !.Owned = owned, !.NotificationSettings = settings]

validate_rename(r, old_name, new_name) ==
    IF old_name \in STANDARD_USERS THEN Throw(r, "cannot be renamed")
    ELSE validate_email_type(r, new_name)

\* r is [users, auth, tables, err, trace]
before_rename(r, old_name, new_name, merge) ==
    validate_rename(
        [r EXCEPT !.tables.NotificationSettings = IF merge THEN @ \ {old_name} ELSE @,
                  !.trace = Append(@, "clear_cache")],
        old_name, new_name)

\* what rename_doc does between the two hooks: the row gets the new name, or
\* is dropped when it is merged into the row that has it
rename_row(r, old_name, new_name, merge) ==
    LET others == DOMAIN r.users \ {old_name}
    IN IF merge
       THEN [r EXCEPT !.users = [n \in others |-> r.users[n]],
                      !.auth = [n \in others |-> r.auth[n]]]
       ELSE [r EXCEPT !.users = [n \in others \cup {new_name} |->
                                    IF n = new_name
                                    THEN [r.users[old_name] EXCEPT !.name = new_name]
                                    ELSE r.users[n]],
                      !.auth = [n \in others \cup {new_name} |->
                                    IF n = new_name THEN r.auth[old_name] ELSE r.auth[n]]]

\* UPDATE tab SET field = new WHERE field = old, for the fields named owner or
\* modified_by
rewrite_owner_columns(row, old_name, new_name) ==
    [row EXCEPT !.cols =
        [f \in DOMAIN row.cols |->
            IF f \in {"owner", "modified_by"} /\ row.cols[f] = old_name
            THEN new_name ELSE row.cols[f]]]

\* variant: only the owner column is rewritten
after_rename_owner_only(r, old_name, new_name) ==
    [r EXCEPT
        !.tables.Owned =
            {[row EXCEPT !.cols =
                 [f \in DOMAIN row.cols |->
                     IF f = "owner" /\ row.cols[f] = old_name
                     THEN new_name ELSE row.cols[f]]] : row \in @},
        !.tables.NotificationSettings =
            IF old_name \in @ THEN (@ \ {old_name}) \cup {new_name} ELSE @,
        !.users[new_name].email = new_name]

after_rename(r, old_name, new_name) ==
    [r EXCEPT
        !.tables.Owned = {rewrite_owner_columns(row, old_name, new_name) : row \in @},
        !.tables.NotificationSettings =
            IF old_name \in @ THEN (@ \ {old_name}) \cup {new_name} ELSE @,
        !.users[new_name].email = new_name]

rename_doc(r, old_name, new_name, merge) ==
    Bind(before_rename(r, old_name, new_name, merge),
         LAMBDA r1 : IF r1.err # "" THEN r1
                     ELSE after_rename(rename_row(r1, old_name, new_name, merge),
                                       old_name, new_name))

\* rename_doc merges only into a row that exists and renames only to a name
\* that does not
RenameDoc ==
    /\ call.op = "none"
    /\ \E old_name \in DOMAIN users, merge \in BOOLEAN :
          \E new_name \in (IF merge THEN DOMAIN users \ {old_name} ELSE NewNameInputs) :
             \E r \in {rename_doc([users |-> users, auth |-> auth, tables |-> tables,
                                   err |-> "", trace |-> <<>>],
                                  old_name, new_name, merge)} :
                /\ users' = IF r.err # "" THEN users ELSE r.users
                /\ auth' = IF r.err # "" THEN auth ELSE r.auth
                /\ tables' = IF r.err # "" THEN tables ELSE r.tables
                /\ resp' = [NoResp EXCEPT !.err = r.err, !.trace = r.trace]
                /\ call' = [op |-> "rename", old_name |-> old_name, new_name |-> new_name,
                            merge |-> merge, users |-> users, tables |-> tables]
    /\ UNCHANGED <<doc, sessions, session, now, hash_count, outbox, system_settings,
                   redeemed, login_manager>>

NextRename == RenameDoc

SpecRename == InitRename /\ [][NextRename]_vars

-----------------------------------------------------------------------------
(* Properties of the rename specification *)

Renamed == call.op = "rename" /\ resp.err = ""

\* C17: a rename is rejected when the old name is Administrator or Guest, or
\* when the new name is not a valid email address; a rejected rename rewrites
\* no owner or modified_by value, renames no Notification Settings record and
\* does not change the user's email.
C17_RejectedRenameChangesNothing ==
    /\ (/\ call.op = "rename"
        /\ \/ call.old_name \in STANDARD_USERS
           \/ call.new_name \in {"not-an-email", "Administrator", "Guest"})
          => resp.err # ""
    /\ (call.op = "rename" /\ resp.err # "") =>
          /\ tables.Owned = call.tables.Owned
          /\ tables.NotificationSettings = call.tables.NotificationSettings
          /\ users = call.users
          /\ call.new_name \notin DOMAIN users \ DOMAIN call.users

C17_Witness ==
    /\ call.op = "rename"
    /\ call.old_name = "a@x.org"
    /\ call.new_name = "not-an-email"
    /\ resp.err = "InvalidEmailAddressError"
    /\ "a@x.org" \in tables.NotificationSettings
    /\ \E row \in tables.Owned : row.tab = "tabNote" /\ row.cols.owner = "a@x.org"
    /\ users["a@x.org"].email = "a@x.org"

C17_WitnessReserved ==
    /\ call.op = "rename"
    /\ call.old_name = "Guest"
    /\ call.new_name = "c@x.org"
    /\ resp.err = "cannot be renamed"

\* C18: after a successful rename old -> new of a non-reserved user, no row of
\* a table with an owner or modified_by column holds old in those columns:
\* each such value became new and every other value is what it was; the
\* Notification Settings record of old, where there was one and the rename is
\* not a merge, is named new; and the user's email equals new.
C18_RenamePropagates ==
    Renamed =>
        /\ call.old_name \notin STANDARD_USERS
        /\ \A row \in tables.Owned :
              \A f \in DOMAIN row.cols \cap {"owner", "modified_by"} :
                 row.cols[f] # call.old_name
        /\ Cardinality(tables.Owned) = Cardinality(call.tables.Owned)
        /\ \A b \in call.tables.Owned :
              \E a \in tables.Owned :
                 /\ a.tab = b.tab /\ a.name = b.name
                 /\ DOMAIN a.cols = DOMAIN b.cols
                 /\ \A f \in DOMAIN b.cols :
                       a.cols[f] = IF f \in {"owner", "modified_by"}
                                      /\ b.cols[f] = call.old_name
                                   THEN call.new_name ELSE b.cols[f]
        /\ call.old_name \notin tables.NotificationSettings
        /\ (~call.merge /\ call.old_name \in call.tables.NotificationSettings) =>
              call.new_name \in tables.NotificationSettings
        /\ tables.NotificationSettings \ {call.new_name}
              = call.tables.NotificationSettings \ {call.old_name, call.new_name}
        /\ call.old_name \notin DOMAIN users
        /\ users[call.new_name].email = call.new_name

C18_Witness ==
    /\ Renamed
    /\ ~call.merge
    /\ call.old_name = "a@x.org"
    /\ call.new_name = "c@x.org"
    /\ call.tables.NotificationSettings = {"a@x.org", "b@x.org"}
    /\ tables.NotificationSettings = {"c@x.org", "b@x.org"}
    /\ \E row \in call.tables.Owned :
          row.tab = "tabNote" /\ row.cols.owner = "a@x.org" /\ row.cols.modified_by = "a@x.org"
    /\ \E row \in tables.Owned :
          row.tab = "tabNote" /\ row.cols.owner = "c@x.org" /\ row.cols.modified_by = "c@x.org"
    /\ \E row \in tables.Owned : row.tab = "tabSingles" /\ row.cols.value = "a@x.org"
    /\ users["c@x.org"].email = "c@x.org"

C18_WitnessMerge ==
    /\ Renamed
    /\ call.merge
    /\ call.old_name = "a@x.org"
    /\ call.new_name = "b@x.org"
    /\ call.tables.NotificationSettings = {"a@x.org"}
    /\ tables.NotificationSettings = {}

-----------------------------------------------------------------------------
(* sign_up: the guest endpoint that registers a website user *)

\* frappe.utils.escape_html on the names the model passes
escape_html(text) == IF text = "<b>" THEN "&lt;b&gt;" ELSE text

\* random_string(length): a password of that length; the policy never sees it
random_string(length) == Password("random", length, 3, "", <<>>)

\* frappe.website.utils.is_signup_disabled reads Website Settings
is_signup_disabled == tables.WebsiteSettings.disable_signup # 0

\* add_roles(*roles): append_roles, then save
add_roles(w, d, roles, order, mail_ok) ==
    save(w, [d EXCEPT !.roles = append_roles(@, roles)], FALSE, order, mail_ok)

\* the document sign_up builds; autoname strips the address and names the row by it
new_signup_user(email, first_name, last_name) ==
    [ InputDoc(strip(email), <<>>, <<>>, "", "Website User", 1, random_string(10), 1, TRUE, TRUE)
        EXCEPT !.first_name = escape_html(first_name),
               !.last_name = escape_html(last_name),
               !.social_logins = <<>>,
               !.flags.in_insert = TRUE ]

\* the branch taken when more than 300 users were created in the last hour:
\* the response page is set and the function goes on
respond_as_web_page(w) ==
    IF tables.UserCreations > 300
    THEN [w EXCEPT !.message = "Temporarily Disabled", !.http_status_code = 429,
                   !.trace = Append(@, "respond_as_web_page")]
    ELSE w

\* frappe.db.set_value for university and major, when given
set_study_fields(w, university, major) ==
    [w EXCEPT !.trace = @ \o (IF university # "" THEN <<"set_value university">> ELSE <<>>)
                          \o (IF major # "" THEN <<"set_value major">> ELSE <<>>)]

\* the default role of Portal Settings, when one is set
add_default_role(r) ==
    IF tables.PortalSettings.default_role # ""
    THEN add_roles(r.w, r.doc, <<tables.PortalSettings.default_role>>, <<>>, TRUE)
    ELSE r

\* a variant without the try block: the failure reaches the caller
sign_up_welcome_raises(w, d, mail_ok) ==
    Bind(send_welcome_mail_to_user(w, d, mail_ok),
         LAMBDA m : IF m.w.err # "" THEN m.w
                    ELSE [m.w EXCEPT !.ret = <<1, "Please check your email for verification">>])

\* the try block: a failure to send the welcome mail is logged, the answer is the same
sign_up_welcome(w, d, mail_ok) ==
    Bind(send_welcome_mail_to_user(w, d, mail_ok),
         LAMBDA m : [(IF m.w.err # ""
                      THEN [m.w EXCEPT !.err = "", !.exc_msg = "",
                                       !.trace = Append(@, "log_error")]
                      ELSE m.w)
                        EXCEPT !.ret = <<1, "Please check your email for verification">>])

\* a variant that re-enables the user it found
sign_up_existing_enables(w, user) ==
    [w EXCEPT !.ret = <<0, "Already Registered">>, !.users[user.name].enabled = 1]

\* the branch for an address that a user already has
sign_up_existing(w, user) ==
    IF user.enabled # 0
    THEN [w EXCEPT !.ret = <<0, "Already Registered">>]
    ELSE [w EXCEPT !.ret = <<0, "Registered but disabled">>]

\* a variant that never adds the default role
sign_up_new_without_default_role(w, email, first_name, last_name, redirect_to, university, major, mail_ok) ==
    Bind(save(respond_as_web_page(w), new_signup_user(email, first_name, last_name),
              FALSE, <<>>, mail_ok[1]),
         LAMBDA r :
            IF r.w.err # "" THEN r.w
            ELSE sign_up_welcome(
                     IF redirect_to # "" THEN Did(r.w, "hset redirect_after_login") ELSE r.w,
                     r.doc, mail_ok[2]))

\* the branch for an address no user has
sign_up_new(w, email, first_name, last_name, redirect_to, university, major, mail_ok) ==
    Bind(save(respond_as_web_page(w), new_signup_user(email, first_name, last_name),
              FALSE, <<>>, mail_ok[1]),
         LAMBDA r :
            IF r.w.err # "" THEN r.w
            ELSE Bind(add_default_role([w |-> set_study_fields(r.w, university, major),
                                        doc |-> r.doc]),
                      LAMBDA a :
                         IF a.w.err # "" THEN a.w
                         ELSE sign_up_welcome(
                                  IF redirect_to # ""
                                  THEN Did(a.w, "hset redirect_after_login") ELSE a.w,
                                  a.doc, mail_ok[2])))

\* frappe.db.get("User", {"email": email})
users_with_email(rows, email) == {n \in DOMAIN rows : rows[n].email = email}

sign_up(w, email, first_name, last_name, redirect_to, university, major, mail_ok) ==
    IF is_signup_disabled
    THEN [w EXCEPT !.err = "Not Allowed", !.exc_msg = "Sign Up is disabled"]
    ELSE IF users_with_email(w.users, email) # {}
    THEN sign_up_existing(w, w.users[CHOOSE n \in users_with_email(w.users, email) : TRUE])
    ELSE sign_up_new(w, email, first_name, last_name, redirect_to, university, major, mail_ok)

\* the calls tried: every address with and without markup in the name; for a new
\* address also the optional arguments and the fate of the two mails
SignUpInputs ==
    { [email |-> e, first_name |-> f, last_name |-> "", redirect_to |-> rt,
       university |-> s[1], major |-> s[2], mail_ok |-> m] :
        e \in UnusedEmails, f \in {"Ann", "<b>"},
        rt \in {"", "/welcome"}, s \in {<<"", "">>, <<"MIT", "Physics">>},
        m \in BOOLEAN \X BOOLEAN }
    \cup
    { [email |-> e, first_name |-> f, last_name |-> "", redirect_to |-> "",
       university |-> "", major |-> "", mail_ok |-> <<TRUE, TRUE>>] :
        e \in WellFormedEmails, f \in {"Ann", "<b>"} }

\* the creation count of the last hour against the configured limit
ThrottleInputs == {<<0, 60>>, <<61, 60>>, <<301, 60>>, <<301, 400>>}

DefaultRoleInputs == {"", "Portal", "Desk", "Retired"}

InitSignUp ==
    /\ \E en \in {0, 1} :
          users = [n \in UserNames |->
                      IF n = "b@x.org" THEN [BaseRow(n) EXCEPT !.enabled = en] ELSE BaseRow(n)]
    /\ auth = [n \in UserNames |-> passlibhash(OtherPassword)]
    /\ doc = NoDoc
    /\ sessions = {}
    /\ session = "Guest"
    /\ now = 0
    /\ hash_count = 0
    /\ outbox = <<>>
    /\ system_settings \in {x \in SystemSettingsInputs :
                               x.enable_password_policy = 1
                               /\ x.reset_password_link_expiry_duration = 0}
    /\ redeemed = {}
    /\ call = [op |-> "none"]
    /\ resp = [NoResp EXCEPT !.ret = <<>>]
    /\ login_manager = TRUE
    /\ \E ds \in {0, 1}, role \in DefaultRoleInputs, t \in ThrottleInputs :
          tables = [NoTables EXCEPT !.WebsiteSettings.disable_signup = ds,
                                    !.PortalSettings.default_role = role,
                                    !.UserCreations = t[1],
                                    !.conf.throttle_user_limit = t[2]]

\* one request to sign_up; a new address needs room for the two keys it draws
SignUp ==
    \E i \in SignUpInputs :
       /\ users_with_email(users, i.email) # {} \/ hash_count + 2 <= MaxHashes
       /\ \E w \in {sign_up([World EXCEPT !.ret = <<>>], i.email, i.first_name, i.last_name,
                            i.redirect_to, i.university, i.major, i.mail_ok)} :
             /\ Commit(w)
             /\ tables' = tables_after(w)
             /\ call' = [op |-> "sign_up"] @@ i
       /\ UNCHANGED <<doc, now, system_settings, login_manager>>

NextSignUp == SignUp

SpecSignUp == InitSignUp /\ [][NextSignUp]_vars

-----------------------------------------------------------------------------
(* Properties of sign_up *)

\* this step is a sign_up call, with sign-up open, for an address a user has
SignUpExisting ==
    /\ call'.op = "sign_up"
    /\ ~is_signup_disabled
    /\ users_with_email(users, call'.email) # {}

\* C19: sign_up with an address that an existing user has returns
\* (0, "Already Registered") when that user is enabled and
\* (0, "Registered but disabled") otherwise, and in both cases no user is
\* created, no field of any user changes, no reset key is drawn and no mail is
\* sent.  Sign-up is open in Website Settings.
C19_ExistingEmailOnlyAnswers ==
    [][SignUpExisting =>
         /\ resp'.err = ""
         /\ \A n \in users_with_email(users, call'.email) :
               resp'.ret = <<0, IF users[n].enabled # 0 THEN "Already Registered"
                                ELSE "Registered but disabled">>
         /\ users' = users
         /\ auth' = auth
         /\ hash_count' = hash_count
         /\ outbox' = outbox
         /\ sessions' = sessions]_vars

\* a disabled user's address was tried, and so was the address sign_up registered
C19_Witness ==
    /\ call.op = "sign_up"
    /\ resp.ret = <<0, "Registered but disabled">>
    /\ users["b@x.org"].enabled = 0
    /\ call.email = "b@x.org"

C19_WitnessRegisteredTwice ==
    /\ call.op = "sign_up"
    /\ call.email = "c@x.org"
    /\ resp.ret = <<0, "Already Registered">>
    /\ hash_count = 2

\* this step is a sign_up call, with sign-up open and user creation not
\* throttled, for an address no user has
SignUpNew ==
    /\ call'.op = "sign_up"
    /\ ~is_signup_disabled
    /\ tables.UserCreations <= tables.conf.throttle_user_limit
    /\ users_with_email(users, call'.email) = {}

\* the step answered status 1 and left exactly one more user, enabled
RegisteredOne ==
    /\ resp'.err = ""
    /\ Len(resp'.ret) = 2
    /\ resp'.ret[1] = 1
    /\ DOMAIN users' = DOMAIN users \cup {call'.email}
    /\ call'.email \notin DOMAIN users
    /\ users'[call'.email].enabled = 1

\* C20 as stated: sign_up with an address that no user has returns status 1 and
\* creates exactly one new user, enabled and of user_type "Website User" when
\* sign_up returns, whatever default role Portal Settings name.
C20_NewUserIsWebsiteUser ==
    [][SignUpNew =>
         /\ RegisteredOne
         /\ users'[call'.email].user_type = "Website User"]_vars

\* the user_type set_system_user derives once the default role is added
SignUpUserType ==
    IF tables.PortalSettings.default_role # ""
       /\ RoleTable[tables.PortalSettings.default_role].desk_access = 1
    THEN "System User"
    ELSE "Website User"

\* C20, amended: sign_up with an address that no user has returns status 1 and
\* creates exactly one new user, enabled; its user_type is "Website User" unless
\* the default role of Portal Settings has desk access, and "System User" then.
C20_NewUserTypeFollowsDefaultRole ==
    [][SignUpNew =>
         /\ RegisteredOne
         /\ users'[call'.email].user_type = SignUpUserType]_vars

\* a sign-up with a desk-access default role has registered a System User
C20_Witness ==
    /\ call.op = "sign_up"
    /\ call.email = "c@x.org"
    /\ resp.ret = <<1, "Please check your email for verification">>
    /\ tables.PortalSettings.default_role = "Desk"
    /\ "c@x.org" \in DOMAIN users
    /\ users["c@x.org"].enabled = 1
    /\ users["c@x.org"].user_type = "System User"

\* a sign-up without a default role has registered a Website User
C20_WitnessWebsiteUser ==
    /\ call.op = "sign_up"
    /\ call.email = "c@x.org"
    /\ resp.ret = <<1, "Please check your email for verification">>
    /\ tables.PortalSettings.default_role = ""
    /\ "c@x.org" \in DOMAIN users
    /\ users["c@x.org"].user_type = "Website User"

\* the last collaborator the request invoked
LastOf(trace) == IF trace = <<>> THEN "" ELSE trace[Len(trace)]

\* C21: sign_up for a new address returns status 1 whenever the user was
\* inserted, also when sending the welcome mail in the try block fails: the
\* failure is logged, no error reaches the caller and the created user remains.
C21_SignUpSurvivesWelcomeMailFailure ==
    [][(SignUpNew /\ ~call'.mail_ok[2]) =>
         /\ resp'.err = ""
         /\ resp'.ret = <<1, "Please check your email for verification">>
         /\ LastOf(resp'.trace) = "log_error"
         /\ call'.email \in DOMAIN users' \ DOMAIN users
         /\ users'[call'.email].enabled = 1]_vars

\* the welcome mail of the try block failed, the answer is status 1 and the user is there
C21_Witness ==
    /\ call.op = "sign_up"
    /\ call.mail_ok = <<TRUE, FALSE>>
    /\ resp.ret = <<1, "Please check your email for verification">>
    /\ LastOf(resp.trace) = "log_error"
    /\ "c@x.org" \in DOMAIN users
    /\ Len(outbox) = 1

-----------------------------------------------------------------------------
(* The reset_password endpoint, for the calls the rate limiter admits *)

\* a variant that issues the key before it looks at the user
reset_password_issues_first(w, user, mail_ok) ==
    IF user \notin DOMAIN w.users
    THEN [w EXCEPT !.http_status_code = 404, !.ret = "not found",
                   !.trace = Append(@, "clear_messages")]
    ELSE Bind(reset_password_of(w, get_doc(w.users, user), TRUE, FALSE, mail_ok),
              LAMBDA r :
                 IF r.w.err # "" THEN r.w
                 ELSE IF user = "Administrator" THEN [r.w EXCEPT !.ret = "not allowed"]
                 ELSE IF w.users[user].enabled = 0 THEN [r.w EXCEPT !.ret = "disabled"]
                 ELSE [r.w EXCEPT !.message = "Password Email Sent",
                                  !.ret = "Password reset instructions have been sent"])

\* reset_password(user): frappe.get_doc raises DoesNotExistError for a missing
\* user, which the handler turns into "not found"; validate_reset_password is an
\* empty hook; an error of User.reset_password is not handled here
reset_password(w, user, mail_ok) ==
    IF user \notin DOMAIN w.users
    THEN [w EXCEPT !.http_status_code = 404, !.ret = "not found",
                   !.trace = Append(@, "clear_messages")]
    ELSE IF user = "Administrator" THEN [w EXCEPT !.ret = "not allowed"]
    ELSE IF w.users[user].enabled = 0 THEN [w EXCEPT !.ret = "disabled"]
    ELSE Bind(reset_password_of(w, get_doc(w.users, user), TRUE, FALSE, mail_ok),
              LAMBDA r :
                 IF r.w.err # "" THEN r.w
                 ELSE [r.w EXCEPT !.message = "Password Email Sent",
                                  !.ret = "Password reset instructions have been sent"])

\* the names a reset is asked for: every user and one nobody has
ResetRequestInputs == UserNames \cup UnusedEmails

InitReset ==
    /\ \E en \in {0, 1} :
          users = [n \in UserNames |->
                      IF n = "b@x.org" THEN [BaseRow(n) EXCEPT !.enabled = en] ELSE BaseRow(n)]
    /\ auth = [n \in UserNames |-> passlibhash(OtherPassword)]
    /\ doc = NoDoc
    /\ sessions = {}
    /\ session = "Guest"
    /\ now = 1
    /\ hash_count = 0
    /\ outbox = <<>>
    /\ system_settings \in {x \in SystemSettingsInputs : x.enable_password_policy = 1}
    /\ redeemed = {}
    /\ call = [op |-> "none"]
    /\ resp = NoResp
    /\ login_manager = TRUE
    /\ tables = NoTables

TickReset ==
    /\ now < MaxTime
    /\ now' = now + 1
    /\ call' = [op |-> "tick"]
    /\ resp' = NoResp
    /\ UNCHANGED <<users, auth, doc, sessions, session, hash_count, outbox, system_settings,
                   redeemed, login_manager, tables>>

\* a POST to reset_password
ResetPassword ==
    /\ hash_count < MaxHashes
    /\ \E user \in ResetRequestInputs, mail_ok \in BOOLEAN :
          \E w \in {reset_password(World, user, mail_ok)} :
             /\ Commit(w)
             /\ call' = [op |-> "reset_password", user |-> user, mail_ok |-> mail_ok]
    /\ UNCHANGED <<doc, now, system_settings, login_manager, tables>>

NextReset == TickReset \/ ResetPassword

SpecReset == InitReset /\ [][NextReset]_vars

-----------------------------------------------------------------------------
(* Properties of the reset_password endpoint *)

\* the step left the users, the key counter and the outbox as they were
NothingIssued ==
    /\ users' = users
    /\ hash_count' = hash_count
    /\ outbox' = outbox

\* the answer the endpoint owes a user it refuses, "" for the others
Refusal(user) ==
    IF user \notin DOMAIN users THEN "not found"
    ELSE IF user = "Administrator" THEN "not allowed"
    ELSE IF users[user].enabled = 0 THEN "disabled"
    ELSE ""

\* C22: the reset_password endpoint returns "not allowed" for Administrator,
\* "disabled" for a user with enabled = 0 and "not found" with HTTP 404 for a
\* missing user; in these three cases no reset key is stored, no issuance
\* timestamp is written and no mail is sent.  A key is issued and a mail
\* dispatched only for the other users.
C22_RefusedResetIssuesNothing ==
    [][call'.op = "reset_password" =>
         /\ Refusal(call'.user) # "" =>
               /\ resp'.err = ""
               /\ resp'.ret = Refusal(call'.user)
               /\ (resp'.http_status_code = 404) <=> (call'.user \notin DOMAIN users)
               /\ NothingIssued
         /\ ~NothingIssued => Refusal(call'.user) = ""]_vars

\* a disabled user asked for a reset after another user was issued a key
C22_Witness ==
    /\ call.op = "reset_password"
    /\ call.user = "b@x.org"
    /\ users["b@x.org"].enabled = 0
    /\ resp.ret = "disabled"
    /\ users["b@x.org"].reset_password_key = 0
    /\ users["a@x.org"].reset_password_key # 0
    /\ Len(outbox) = 1

C22_WitnessNotFound ==
    /\ call.op = "reset_password"
    /\ call.user \notin DOMAIN users
    /\ resp.ret = "not found"
    /\ resp.http_status_code = 404
    /\ outbox = <<>>

\* this step is a request for a user the endpoint serves, and the mail could not be sent
ResetMailFailed ==
    /\ call'.op = "reset_password"
    /\ Refusal(call'.user) = ""
    /\ ~call'.mail_ok

\* C27 as stated: when User.reset_password is asked to send the mail and the
\* dispatch fails with OutgoingEmailError, the failure is caught: the operation
\* succeeds and returns the link, and the key's hash and the issuance timestamp
\* are stored.
C27_ResetSurvivesMailFailure ==
    [][ResetMailFailed =>
         /\ resp'.err = ""
         /\ resp'.link = reset_link(hash_count + 1, FALSE)
         /\ users'[call'.user].reset_password_key = sha256_hash(hash_count + 1)
         /\ users'[call'.user].last_reset_password_key_generated_on = now]_vars

-----------------------------------------------------------------------------
(* generate_keys *)

\* frappe.get_roles(user): Administrator holds every role
get_roles(rows, user) ==
    IF user = "Administrator" THEN RoleNames ELSE Range(rows[user].roles)

\* a variant that lets every caller through
only_for_everyone(w, role) == w

\* frappe.only_for(role): PermissionError unless the session user holds the role
only_for(w, role) ==
    IF w.session = "Administrator" \/ role \in get_roles(w.users, w.session)
    THEN w
    ELSE Throw(w, "PermissionError")

\* a variant that draws a new api_key on every call
generate_keys_authorized_new_key(w, user) ==
    Bind([secret |-> w.hash_count + 1, key |-> w.hash_count + 2],
         LAMBDA h :
            Bind(save([w EXCEPT !.hash_count = h.key,
                                !.trace = @ \o <<"generate_hash", "generate_hash">>],
                      [get_doc(w.users, user) EXCEPT !.api_key = h.key, !.api_secret = h.secret],
                      FALSE, <<>>, TRUE),
                 LAMBDA r : IF r.w.err # "" THEN r.w ELSE [r.w EXCEPT !.ret = h.secret]))

\* generate_keys past only_for, for a user that exists: the secret is drawn
\* first, the key only when the user has none
generate_keys_authorized(w, user) ==
    Bind([secret |-> w.hash_count + 1,
          key |-> IF w.users[user].api_key = 0 THEN w.hash_count + 2 ELSE w.users[user].api_key,
          drawn |-> IF w.users[user].api_key = 0 THEN 2 ELSE 1],
         LAMBDA h :
            Bind(save([w EXCEPT !.hash_count = @ + h.drawn,
                                !.trace = @ \o (IF h.drawn = 2
                                                THEN <<"generate_hash", "generate_hash">>
                                                ELSE <<"generate_hash">>)],
                      [get_doc(w.users, user) EXCEPT !.api_key = h.key, !.api_secret = h.secret],
                      FALSE, <<>>, TRUE),
                 LAMBDA r : IF r.w.err # "" THEN r.w ELSE [r.w EXCEPT !.ret = h.secret]))

generate_keys(w, user) ==
    Bind(only_for(w, "System Manager"),
         LAMBDA w1 :
            IF w1.err # "" THEN w1
            ELSE IF user \notin DOMAIN w1.users THEN Throw(w1, "DoesNotExistError")
            ELSE generate_keys_authorized(w1, user))

\* the calls of generate_keys in one run
MaxKeyCalls == 3

\* the users keys are asked for: three that exist and one that does not
KeyTargets == {"Administrator", "a@x.org", "b@x.org"} \cup UnusedEmails

\* b@x.org is a System Manager; a@x.org may hold a key drawn earlier
InitKeys ==
    /\ hash_count \in {0, 1}
    /\ users = [n \in UserNames |->
                  IF n = "b@x.org"
                  THEN [BaseRow(n) EXCEPT !.roles = <<"System Manager">>,
                                          !.user_type = "System User"]
                  ELSE IF n = "a@x.org" THEN [BaseRow(n) EXCEPT !.api_key = hash_count]
                  ELSE BaseRow(n)]
    /\ auth = [n \in UserNames |-> passlibhash(OtherPassword)]
    /\ doc = NoDoc
    /\ sessions = UserNames
    /\ session \in UserNames
    /\ now = 0
    /\ outbox = <<>>
    /\ system_settings \in {x \in SystemSettingsInputs :
                               x.enable_password_policy = 1
                               /\ x.reset_password_link_expiry_duration = 0}
    /\ redeemed = {}
    /\ call = [op |-> "none", n |-> 0, user |-> ""]
    /\ resp = [NoResp EXCEPT !.ret = 0]
    /\ login_manager = TRUE
    /\ tables = NoTables

\* a POST to generate_keys
GenerateKeys ==
    /\ call.n < MaxKeyCalls
    /\ \E user \in KeyTargets :
          \E w \in {generate_keys([World EXCEPT !.ret = 0], user)} :
             /\ Commit(w)
             /\ call' = [op |-> "generate_keys", n |-> call.n + 1, user |-> user]
             /\ tables' = tables_after(w)
    /\ UNCHANGED <<doc, now, system_settings, login_manager>>

NextKeys == GenerateKeys

SpecKeys == InitKeys /\ [][NextKeys]_vars

\* the secrets stored for any user
StoredSecrets(rows) == {rows[n].api_secret : n \in DOMAIN rows} \ {0}

\* C23: generate_keys is refused for a caller without the System Manager role
\* and then changes nothing; for an authorized caller and an existing user every
\* call stores a secret no user had before and returns it, while api_key is
\* drawn only when the user has none and is left as it is by every later call.
C23_SecretRotatesKeyStays ==
    [][call'.op = "generate_keys" /\ call'.n = call.n + 1 =>
         IF "System Manager" \notin get_roles(users, session)
         THEN resp'.err = "PermissionError" /\ users' = users /\ auth' = auth
         ELSE call'.user \in DOMAIN users =>
                 /\ resp'.err = ""
                 /\ resp'.ret = users'[call'.user].api_secret
                 /\ resp'.ret \notin StoredSecrets(users) \cup {0}
                 /\ users'[call'.user].api_key # 0
                 /\ users'[call'.user].api_key # users'[call'.user].api_secret
                 /\ users[call'.user].api_key # 0
                       => users'[call'.user].api_key = users[call'.user].api_key]_vars

\* a third call for the same user: the key of the first call, the secret of the third
C23_Witness ==
    /\ call.op = "generate_keys"
    /\ call.n = 3
    /\ call.user = "b@x.org"
    /\ session = "b@x.org"
    /\ hash_count = 4
    /\ users["b@x.org"].api_key = 2
    /\ users["b@x.org"].api_secret = 4
    /\ resp.ret = 4

\* a caller without the role was refused
C23_WitnessRefused ==
    /\ call.op = "generate_keys"
    /\ session = "a@x.org"
    /\ resp.err = "PermissionError"
    /\ \A n \in DOMAIN users : users[n].api_secret = 0

-----------------------------------------------------------------------------
(* impersonate, statement by statement *)

\* the users an impersonation is asked for: three that exist and one that does not
ImpersonateTargets == {"Administrator", "a@x.org", "b@x.org"} \cup UnusedEmails

\* the statements after only_for: the Activity Log insert, the Notification Log
\* insert, login_manager.impersonate
NumImpersonateStatements == 3

\* a variant that switches the session first
impersonate_statement_switch_first(i, t, s, user, reason, impersonator) ==
    CASE i = 1 -> [tables |-> t, session |-> user]
      [] i = 2 -> [tables |-> [t EXCEPT !.ActivityLog = @ \cup
                                   {[user |-> user, status |-> "Success",
                                     operation |-> "Impersonate",
                                     subject |-> <<impersonator, user>>]}],
                   session |-> s]
      [] i = 3 -> [tables |-> [t EXCEPT !.NotificationLog = @ \cup
                                   {[for_user |-> user, from_user |-> impersonator,
                                     type |-> "Alert",
                                     subject |-> <<impersonator, reason>>]}],
                   session |-> s]

\* statement i of impersonate on the tables t and the session s
impersonate_statement(i, t, s, user, reason, impersonator) ==
    CASE i = 1 -> [tables |-> [t EXCEPT !.ActivityLog = @ \cup
                                   {[user |-> user, status |-> "Success",
                                     operation |-> "Impersonate",
                                     subject |-> <<impersonator, user>>]}],
                   session |-> s]
      [] i = 2 -> [tables |-> [t EXCEPT !.NotificationLog = @ \cup
                                   {[for_user |-> user, from_user |-> s, type |-> "Alert",
                                     subject |-> <<impersonator, reason>>]}],
                   session |-> s]
      [] i = 3 -> [tables |-> t, session |-> user]

NoImpersonation == [op |-> "none", user |-> "", reason |-> "", impersonator |-> "",
                    step |-> 0, tables |-> NoTables]

InitImpersonate ==
    /\ users = [n \in UserNames |-> BaseRow(n)]
    /\ auth = [n \in UserNames |-> passlibhash(OtherPassword)]
    /\ doc = NoDoc
    /\ session \in UserNames
    /\ sessions = {session}
    /\ now = 0
    /\ hash_count = 0
    /\ outbox = <<>>
    /\ system_settings \in {x \in SystemSettingsInputs :
                               x.enable_password_policy = 1
                               /\ x.reset_password_link_expiry_duration = 0}
    /\ redeemed = {}
    /\ call = NoImpersonation
    /\ resp = NoResp
    /\ login_manager = TRUE
    /\ tables = NoTables

\* a POST to impersonate reaches only_for; call.tables keeps the tables of the
\* transaction's start
Impersonate ==
    /\ call.step = 0
    /\ \E user \in ImpersonateTargets, reason \in {"support", ""} :
          \E w \in {only_for(World, "Administrator")} :
             /\ call' = [op |-> "impersonate", user |-> user, reason |-> reason,
                         impersonator |-> session,
                         step |-> IF w.err # "" THEN 0 ELSE 1, tables |-> tables]
             /\ resp' = [NoResp EXCEPT !.err = w.err]
    /\ UNCHANGED <<users, auth, doc, sessions, session, now, hash_count, outbox,
                   system_settings, redeemed, login_manager, tables>>

\* the next statement runs; an insert can fail (the Notification Log checks its
\* link to the user), and the exception rolls the request's inserts back
ImpersonateStatement ==
    /\ call.op = "impersonate"
    /\ call.step \in 1..NumImpersonateStatements
    /\ \E ok \in (IF call.step = 3 THEN {TRUE}
                  ELSE IF call.step = 2 /\ call.user \notin DOMAIN users THEN {FALSE}
                  ELSE BOOLEAN) :
          IF ok
          THEN \E r \in {impersonate_statement(call.step, tables, session, call.user,
                                               call.reason, call.impersonator)} :
                  /\ tables' = r.tables
                  /\ session' = r.session
                  /\ sessions' = (sessions \ {session}) \cup {r.session}
                  /\ call' = [call EXCEPT !.step = IF @ = NumImpersonateStatements
                                                   THEN 0 ELSE @ + 1]
                  /\ resp' = resp
          ELSE /\ tables' = call.tables
               /\ call' = [call EXCEPT !.step = 0]
               /\ resp' = [resp EXCEPT !.err = "ValidationError"]
               /\ UNCHANGED <<session, sessions>>
    /\ UNCHANGED <<users, auth, doc, now, hash_count, outbox, system_settings, redeemed,
                   login_manager>>

NextImpersonate == Impersonate \/ ImpersonateStatement

SpecImpersonate == InitImpersonate /\ [][NextImpersonate]_vars

\* the two records of an impersonation of user by impersonator are in the tables t
Recorded(t, impersonator, user) ==
    /\ \E a \in t.ActivityLog :
          a.user = user /\ a.operation = "Impersonate" /\ a.subject = <<impersonator, user>>
    /\ \E n \in t.NotificationLog : n.for_user = user /\ n.from_user = impersonator

\* C24: impersonate is refused for every caller other than Administrator, with
\* no log, no notification and no change of session; for Administrator the
\* Activity Log entry and the Notification Log for the target user are inserted
\* before the session identity switches, so the session is never the target
\* user's without both records being there.
C24_RecordsBeforeSwitch ==
    [][/\ (call'.op = "impersonate" /\ call.step = 0 /\ session # "Administrator")
             => /\ resp'.err = "PermissionError"
                /\ call'.step = 0
                /\ tables' = tables
                /\ session' = session
                /\ sessions' = sessions
       /\ session' # session
             => /\ session' = call.user
                /\ call.impersonator = "Administrator"
                /\ Recorded(tables, call.impersonator, call.user)
                /\ Recorded(tables', call.impersonator, call.user)]_vars

\* Administrator has become a@x.org, and both records are there
C24_Witness ==
    /\ call.op = "impersonate"
    /\ call.impersonator = "Administrator"
    /\ call.step = 0
    /\ session = "a@x.org"
    /\ resp.err = ""
    /\ Recorded(tables, "Administrator", "a@x.org")

\* a@x.org asked to impersonate b@x.org and was refused
C24_WitnessRefused ==
    /\ call.op = "impersonate"
    /\ call.impersonator = "a@x.org"
    /\ call.user = "b@x.org"
    /\ resp.err = "PermissionError"
    /\ session = "a@x.org"
    /\ tables = NoTables

-----------------------------------------------------------------------------
(* The later steps of validate: username, mailboxes, module profile, image *)

\* a mailbox row of the user
Mailbox == [email_account |-> "Support", awaiting_password |-> 1]

SmallImage == [url |-> "/files/me.png", len |-> 14]

HugeImage == [url |-> "data:image/png;base64,...", len |-> 2001]

\* updates of a@x.org and inserts of c@x.org that vary the fields the later
\* steps read
TailInputs ==
    { [InputDoc(n, r, <<>>, "", "Website User", en, NoPassword, 0, n \in UnusedEmails, FALSE)
         EXCEPT !.user_emails = ue, !.module_profile = mp, !.block_modules = bm,
                !.user_image = img, !.language = lt[1], !.time_zone = lt[2]] :
        n \in {"a@x.org"} \cup UnusedEmails, r \in {<<>>, <<"Retired", "Portal">>},
        en \in {0, 1}, ue \in {<<>>, <<Mailbox>>, <<Mailbox, Mailbox>>},
        mp \in {"", "Basic", "Ghost"}, bm \in {<<>>, <<"Old">>},
        img \in {NoImage, SmallImage, HugeImage},
        lt \in {<<"en", "UTC">>, <<"Loading...", "">>} }

\* b@x.org holds the username a new "Ann" would get
InitValidateTail ==
    /\ doc \in TailInputs
    /\ login_manager \in (IF doc.enabled = 0 THEN BOOLEAN ELSE {TRUE})
    /\ tables = NoTables
    /\ users = [n \in UserNames |->
                  IF n = "b@x.org" THEN [BaseRow(n) EXCEPT !.username = "ann"] ELSE BaseRow(n)]
    /\ auth = [n \in DOMAIN users |-> passlibhash(OtherPassword)]
    /\ sessions = DOMAIN users
    /\ session = "Administrator"
    /\ now = 0
    /\ hash_count = 0
    /\ outbox = <<>>
    /\ call = [op |-> "none", n |-> 0, input |-> doc]
    /\ resp = NoResp
    /\ redeemed = {}
    /\ system_settings \in {x \in SystemSettingsInputs :
                               x.enable_password_policy = 1
                               /\ x.reset_password_link_expiry_duration = 0}

SpecValidateTail == InitValidateTail /\ [][NextValidate]_vars

\* how the last save ended
FailedAtMailbox ==
    call.op = "save" /\ resp.exc_msg = "Email Account added multiple times"

FailedAtModuleProfile ==
    call.op = "save" /\ resp.err = "DoesNotExistError"

FailedAtImage ==
    call.op = "save" /\ resp.exc_msg = "Not a valid User Image."

InTrace(what) == \E i \in DOMAIN resp.trace : resp.trace[i] = what

DisabledRolesDropped == \A r \in Range(doc.roles) : RoleTable[r].disabled = 0

\* C25 as stated: validate applies the module profile's block list (step 12)
\* before it drops the disabled roles (13), checks the mailboxes (14) and
\* rewrites the awaiting-password registry (15), and stops at the first failing
\* step: a save that fails at the mailbox check has the block list applied, and
\* one that fails at the module profile has neither dropped a disabled role nor
\* touched the registry.
C25_ModuleProfileBeforeDisabledRoles ==
    /\ (FailedAtMailbox /\ call.input.module_profile \in DOMAIN ModuleProfileTable)
          => doc.block_modules = ModuleProfileTable[call.input.module_profile]
    /\ FailedAtModuleProfile
          => /\ doc.roles = call.input.roles
             /\ ~InTrace("ask_pass_update")

\* C25, amended: validate runs remove_disabled_roles, then the mailbox check,
\* then the registry update, then the module profile, then the image check, and
\* stops at the first failing step.  A save that fails at the mailbox check has
\* dropped the disabled roles and touched neither the registry nor
\* block_modules; one that fails at the module profile has dropped the disabled
\* roles and rewritten the registry when the user has mailboxes, with
\* block_modules as given; one that fails at the image check has the block list
\* applied; and a failed save has not defaulted the time zone or cleared the
\* sentinel language.
C25_DisabledRolesBeforeModuleProfile ==
    /\ FailedAtMailbox
          => /\ DisabledRolesDropped
             /\ ~InTrace("ask_pass_update")
             /\ doc.block_modules = call.input.block_modules
    /\ FailedAtModuleProfile
          => /\ DisabledRolesDropped
             /\ InTrace("ask_pass_update") <=> (call.input.user_emails # <<>>)
             /\ doc.block_modules = call.input.block_modules
    /\ (FailedAtImage /\ call.input.module_profile # "")
          => doc.block_modules = ModuleProfileTable[call.input.module_profile]
    /\ (FailedAtMailbox \/ FailedAtModuleProfile \/ FailedAtImage)
          => /\ doc.time_zone = call.input.time_zone
             /\ doc.language = call.input.language

\* a save with a repeated mailbox, a module profile and a disabled role failed
\* at the mailbox check: the role is gone, the block list is not applied
C25_Witness ==
    /\ FailedAtMailbox
    /\ call.input.module_profile = "Basic"
    /\ call.input.roles = <<"Retired", "Portal">>
    /\ doc.roles = <<"Portal">>
    /\ doc.block_modules = <<"Old">>

\* a save with a mailbox and a missing module profile failed after the registry update
C25_WitnessRegistry ==
    /\ FailedAtModuleProfile
    /\ InTrace("ask_pass_update")
    /\ doc.time_zone = ""

\* C26: a save that fails at the duplicate-mailbox check or at the image-size
\* check has had no side effect: the earlier steps of the same validate have
\* terminated no session of the user, toggled no notification setting and not
\* rewritten the awaiting-password registry.
C26_FailedSaveHasNoSideEffect ==
    (FailedAtMailbox \/ FailedAtImage)
       => /\ ~InTrace("logout")
          /\ call.input.name \in DOMAIN users => call.input.name \in sessions
          /\ ~InTrace("toggle_notifications")
          /\ ~InTrace("ask_pass_update")

\* the first save was an insert of a named user whose welcome mail could not be sent
WelcomeMailFailed ==
    /\ call.op = "save"
    /\ call.n = 1
    /\ call.input.islocal
    /\ call.input.name \notin STANDARD_USERS
    /\ InTrace("sendmail")
    /\ outbox = <<>>

\* C28: when the welcome mail cannot be sent during the save of a newly
\* inserted non-reserved user, the save still succeeds and the error is logged,
\* and a new_password supplied with the insert is by then stored as the user's
\* password.
C28_InsertSurvivesWelcomeMailFailure ==
    WelcomeMailFailed
       => /\ resp.err = ""
          /\ InTrace("log_error")
          /\ call.input.name \in DOMAIN users
          /\ ~doc.islocal
          /\ call.input.new_password # NoPassword
                => auth[call.input.name] = passlibhash(call.input.new_password)

\* an insert with a password and a welcome mail that failed
C28_Witness ==
    /\ WelcomeMailFailed
    /\ call.input.new_password = GoodPassword
    /\ call.input.name = "a@x.org"
    /\ auth["a@x.org"] = passlibhash(GoodPassword)
    /\ resp.err = ""

-----------------------------------------------------------------------------
(* The background jobs of a save *)

\* get_contact_name(email): the contact that lists the address, "" if none
get_contact_name(t, email) ==
    IF \E c \in t.Contact : c.email_id = email
    THEN (CHOOSE c \in t.Contact : c.email_id = email).name
    ELSE ""

\* what the database does to the contact write
ContactOutcomes == {"ok", "DuplicateEntryError", "TimestampMismatchError"}

\* variant: the conflict on the existing contact is swallowed
create_contact_swallows_conflict(t, rows, user, outcome) ==
    IF user.name \in STANDARD_USERS THEN [tables |-> t, users |-> rows, err |-> ""]
    ELSE IF get_contact_name(t, user.email) = ""
    THEN IF outcome = "DuplicateEntryError" THEN [tables |-> t, users |-> rows, err |-> ""]
         ELSE IF outcome # "ok" THEN [tables |-> t, users |-> rows, err |-> outcome]
         ELSE [tables |-> [t EXCEPT !.Contact = @ \cup
                              {[name |-> user.first_name, user |-> user.name,
                                email_id |-> user.email, first_name |-> user.first_name]}],
               users |-> rows, err |-> ""]
    ELSE IF outcome = "TimestampMismatchError"
         THEN [tables |-> t, users |-> rows, err |-> ""]
    ELSE IF outcome # "ok" THEN [tables |-> t, users |-> rows, err |-> outcome]
    ELSE [tables |-> [t EXCEPT !.Contact =
                         {IF c.email_id = user.email
                          THEN [c EXCEPT !.first_name = user.first_name] ELSE c : c \in @}],
          users |-> rows, err |-> ""]

\* create_contact(user): returns [tables, users, err]
create_contact(t, rows, user, outcome) ==
    IF user.name \in STANDARD_USERS THEN [tables |-> t, users |-> rows, err |-> ""]
    ELSE IF get_contact_name(t, user.email) = ""
    THEN IF outcome = "DuplicateEntryError" THEN [tables |-> t, users |-> rows, err |-> ""]
         ELSE IF outcome # "ok" THEN [tables |-> t, users |-> rows, err |-> outcome]
         ELSE [tables |-> [t EXCEPT !.Contact = @ \cup
                              {[name |-> user.first_name, user |-> user.name,
                                email_id |-> user.email, first_name |-> user.first_name]}],
               users |-> rows, err |-> ""]
    ELSE IF outcome = "TimestampMismatchError"
         THEN [tables |-> t, users |-> rows, err |-> "RetryBackgroundJobError"]
    ELSE IF outcome # "ok" THEN [tables |-> t, users |-> rows, err |-> outcome]
    ELSE [tables |-> [t EXCEPT !.Contact =
                         {IF c.email_id = user.email
                          THEN [c EXCEPT !.first_name = user.first_name] ELSE c : c \in @}],
          users |-> rows, err |-> ""]

\* has_gravatar(name): an avatar url, none, or a failed lookup
GravatarOutcomes == {"found", "none", "error"}

Gravatar == [url |-> "https://secure.gravatar.com/avatar/x", len |-> 36]

\* update_gravatar(name): returns [tables, users, err]
update_gravatar(t, rows, name, outcome) ==
    IF outcome = "error" THEN [tables |-> t, users |-> rows, err |-> "Exception"]
    ELSE IF outcome = "found" /\ name \in DOMAIN rows
    THEN [tables |-> t, users |-> [rows EXCEPT ![name].user_image = Gravatar], err |-> ""]
    ELSE [tables |-> t, users |-> rows, err |-> ""]

\* saves of a@x.org and Administrator and inserts of c@x.org, with and without
\* an image, in a language that exists or does not
JobInputs ==
    { [InputDoc(n, <<>>, <<>>, "", "Website User", 1, NoPassword, 0, n \in UnusedEmails, FALSE)
         EXCEPT !.user_image = img, !.language = lang, !.first_name = f] :
        n \in {"a@x.org", "Administrator"} \cup UnusedEmails,
        img \in {NoImage, SmallImage}, lang \in {"en", "tlh"}, f \in {"Ann", "Bea"} }

InitJobs ==
    /\ doc \in JobInputs
    /\ login_manager = TRUE
    /\ \E have \in BOOLEAN :
          tables = [NoTables EXCEPT !.Contact =
                       IF have THEN {[name |-> "Ann", user |-> "a@x.org",
                                      email_id |-> "a@x.org", first_name |-> "Ann"]}
                       ELSE {}]
    /\ users = [n \in UserNames |-> BaseRow(n)]
    /\ auth = [n \in DOMAIN users |-> passlibhash(OtherPassword)]
    /\ sessions = DOMAIN users
    /\ session = "Administrator"
    /\ now = 0
    /\ hash_count = 0
    /\ outbox = <<>>
    /\ call = [op |-> "none", n |-> 0, input |-> doc]
    /\ resp = NoResp
    /\ redeemed = {}
    /\ system_settings \in {x \in SystemSettingsInputs :
                               x.enable_password_policy = 1
                               /\ x.reset_password_link_expiry_duration = 0}

\* the worker takes a job from the queue and runs it in a transaction of its own
RunJob ==
    /\ \E j \in tables.Jobs :
          \E outcome \in (IF j.method = "create_contact" THEN ContactOutcomes
                          ELSE GravatarOutcomes) :
             \E r \in {IF j.method = "create_contact"
                       THEN create_contact(tables, users,
                                           IF j.user \in DOMAIN users THEN users[j.user]
                                           ELSE [BaseRow(j.user) EXCEPT !.email = ""],
                                           outcome)
                       ELSE update_gravatar(tables, users, j.user, outcome)} :
                /\ tables' = [(IF r.err # "" THEN tables ELSE r.tables)
                                 EXCEPT !.Jobs = @ \ {j}]
                /\ users' = IF r.err # "" THEN users ELSE r.users
                /\ call' = [op |-> "run_job", n |-> call.n, input |-> call.input,
                            job |-> j, visible |-> j.user \in DOMAIN users,
                            outcome |-> outcome]
                /\ resp' = [NoResp EXCEPT !.err = r.err]
    /\ UNCHANGED <<auth, doc, sessions, session, now, hash_count, outbox, system_settings,
                   redeemed, login_manager>>

NextJobs == Save \/ RunJob

SpecJobs == InitJobs /\ [][NextJobs]_vars

\* the jobs a step put on the queue
Queued == tables'.Jobs \ tables.Jobs

\* C29: outside test and install mode the contact job and the avatar job of a
\* save reach the worker only after the save has committed, never when it is
\* rolled back, so the worker finds the user row; the avatar job is queued only
\* for a user outside STANDARD_USERS without a user_image; and a job that fails
\* leaves the committed user rows as they are.
C29_JobsRunAfterCommit ==
    [][/\ call'.op = "save" =>
            /\ resp'.err # "" => Queued = {}
            /\ \A j \in Queued : j.user = doc'.name /\ j.user \in DOMAIN users'
            /\ [method |-> "update_gravatar", user |-> doc'.name] \in Queued
                  => doc'.name \notin STANDARD_USERS /\ doc'.user_image = NoImage
       /\ call'.op = "run_job" =>
            /\ call'.job \in tables.Jobs
            /\ call'.visible
            /\ resp'.err # "" => (users' = users /\ auth' = auth)]_vars

\* the contact job of a newly inserted user ran and found the row
C29_Witness ==
    /\ call.op = "run_job"
    /\ call.job = [method |-> "create_contact", user |-> "c@x.org"]
    /\ call.visible
    /\ resp.err = ""
    /\ \E c \in tables.Contact : c.user = "c@x.org"

\* a save was rolled back after on_update had enqueued its jobs: the queue is empty
C29_WitnessRolledBack ==
    /\ call.op = "save"
    /\ resp.err = "DoesNotExistError"
    /\ InTrace("enqueue create_contact")
    /\ tables.Jobs = {}
    /\ "c@x.org" \notin DOMAIN users

-----------------------------------------------------------------------------
(* The cache of the enabled users *)

\* frappe.get_all("User", filters={"enabled": "1"}, pluck="name")
enabled_user_names(rows) == {n \in DOMAIN rows : rows[n].enabled = 1}

\* frappe.cache.get_value("enabled_users", generator): the cached value, or the
\* generator's value, which is then cached; a cached value v is kept as <<v>>
get_enabled_users(t, rows) ==
    IF t.Cache.enabled_users # <<>> THEN t
    ELSE [t EXCEPT !.Cache.enabled_users = <<enabled_user_names(rows)>>]

\* the operations of one run
MaxCacheOps == 4

\* inserts of c@x.org, and updates of a user that set enabled or only the first name
CacheSaveInputs ==
    { [InputDoc(n, <<>>, <<>>, "", "Website User", en, NoPassword, 0, TRUE, FALSE)
         EXCEPT !.first_name = "Cy"] :
        n \in UnusedEmails \ DOMAIN users, en \in {0, 1} }
    \cup { [get_doc(users, n) EXCEPT !.enabled = en] :
             n \in DOMAIN users \ {"Guest"}, en \in {0, 1} }
    \cup { [get_doc(users, n) EXCEPT !.first_name = "Bea"] : n \in DOMAIN users \ STANDARD_USERS }

InitCache ==
    /\ users = [n \in UserNames |-> BaseRow(n)]
    /\ auth = [n \in UserNames |-> passlibhash(OtherPassword)]
    /\ doc = NoDoc
    /\ sessions = {}
    /\ session = "Administrator"
    /\ now = 0
    /\ hash_count = 0
    /\ outbox = <<>>
    /\ system_settings \in {x \in SystemSettingsInputs :
                               x.enable_password_policy = 1
                               /\ x.reset_password_link_expiry_duration = 0}
    /\ redeemed = {}
    /\ call = [op |-> "none", n |-> 0, user |-> ""]
    /\ resp = [NoResp EXCEPT !.ret = <<>>]
    /\ login_manager = TRUE
    /\ tables = NoTables

\* a request calls get_enabled_users()
GetEnabledUsers ==
    /\ call.n < MaxCacheOps
    /\ tables' = get_enabled_users(tables, users)
    /\ resp' = [NoResp EXCEPT !.ret = tables'.Cache.enabled_users]
    /\ call' = [op |-> "get_enabled_users", n |-> call.n + 1, user |-> ""]
    /\ UNCHANGED <<users, auth, doc, sessions, session, now, hash_count, outbox,
                   system_settings, redeemed, login_manager>>

\* doc.insert() or doc.save() of one of the inputs
SaveUser ==
    /\ call.n < MaxCacheOps
    /\ \E d \in CacheSaveInputs :
          \E r \in {save([World EXCEPT !.ret = <<>>], d, FALSE, <<>>, TRUE)} :
             /\ Commit(r.w)
             /\ doc' = r.doc
             /\ call' = [op |-> "save", n |-> call.n + 1, user |-> d.name]
             /\ tables' = tables_after(r.w)
    /\ UNCHANGED <<now, system_settings, login_manager>>

\* frappe.rename_doc("User", old_name, new_name, merge=merge)
RenameUser ==
    /\ call.n < MaxCacheOps
    /\ \E old_name \in DOMAIN users, merge \in BOOLEAN :
          \E new_name \in (IF merge THEN DOMAIN users \ ({old_name} \cup STANDARD_USERS)
                           ELSE UnusedEmails \ DOMAIN users) :
             \E r \in {rename_doc([users |-> users, auth |-> auth, tables |-> tables,
                                   err |-> "", trace |-> <<>>],
                                  old_name, new_name, merge)} :
                /\ users' = IF r.err # "" THEN users ELSE r.users
                /\ auth' = IF r.err # "" THEN auth ELSE r.auth
                /\ tables' = IF r.err # "" THEN tables ELSE r.tables
                /\ resp' = [NoResp EXCEPT !.err = r.err, !.trace = r.trace, !.ret = <<>>]
                /\ call' = [op |-> "rename", n |-> call.n + 1, user |-> old_name]
    /\ UNCHANGED <<doc, sessions, session, now, hash_count, outbox, system_settings,
                   redeemed, login_manager>>

\* the statements i+1 .. NumTrashStatements of on_trash
RECURSIVE on_trash_statements(_, _, _)
on_trash_statements(i, t, name) ==
    IF i >= NumTrashStatements THEN t
    ELSE on_trash_statements(i + 1, on_trash_statement(i + 1, t, name), name)

\* frappe.delete_doc("User", name) from on_trash to the removal of the row
DeleteUser ==
    /\ call.n < MaxCacheOps
    /\ \E name \in DOMAIN users :
          \E r \in {on_trash_begin(get_doc(users, name), sessions)} :
             /\ doc' = r.doc
             /\ sessions' = IF r.err # "" THEN sessions ELSE r.sessions
             /\ tables' = IF r.err # "" THEN tables ELSE on_trash_statements(0, tables, name)
             /\ users' = IF r.err # "" THEN users
                         ELSE [n \in DOMAIN users \ {name} |-> users[n]]
             /\ auth' = IF r.err # "" THEN auth
                        ELSE [n \in DOMAIN auth \ {name} |-> auth[n]]
             /\ resp' = [NoResp EXCEPT !.err = r.err, !.trace = <<"clear_cache">>, !.ret = <<>>]
             /\ call' = [op |-> "delete", n |-> call.n + 1, user |-> name]
    /\ UNCHANGED <<session, now, hash_count, outbox, system_settings, redeemed, login_manager>>

NextCache == GetEnabledUsers \/ SaveUser \/ RenameUser \/ DeleteUser

SpecCache == InitCache /\ [][NextCache]_vars

\* a cached 'enabled_users' value lists exactly the enabled users
CacheFresh ==
    tables.Cache.enabled_users # <<>>
       => tables.Cache.enabled_users[1] = enabled_user_names(users)

\* C30: after any sequence of committed inserts, updates that change enabled,
\* renames and deletions of users, with get_enabled_users reads in between
\* that fill the cache on a miss, a cached 'enabled_users' value equals the set
\* of the names of the enabled users.
C30_CachedEnabledUsersIsCurrent == CacheFresh

\* the cache was filled, then a user was renamed: the value still lists the old name
C30_WitnessRename ==
    /\ call.op = "rename"
    /\ resp.err = ""
    /\ tables.Cache.enabled_users # <<>>
    /\ call.user \in tables.Cache.enabled_users[1]
    /\ call.user \notin DOMAIN users

\* an insert, an update that changes enabled and a deletion leave no cached value
C30_SaveAndDeleteDropTheKey ==
    [][/\ (call'.op = "delete" /\ resp'.err = "") => tables'.Cache.enabled_users = <<>>
       /\ (call'.op = "save" /\ resp'.err = ""
           /\ enabled_user_names(users') # enabled_user_names(users))
             => tables'.Cache.enabled_users = <<>>
       /\ (call'.op # "rename" /\ CacheFresh) => CacheFresh']_vars

\* a value was cached and an update that disabled a user dropped it
C30_WitnessDisabled ==
    /\ call.op = "save"
    /\ resp.err = ""
    /\ call.user = "a@x.org"
    /\ users["a@x.org"].enabled = 0
    /\ tables.Cache.enabled_users = <<>>
    /\ call.n >= 2

-----------------------------------------------------------------------------
(* create_contact and the errors of the contact write *)

\* the worker ran create_contact for the user, and the contact write ended as outcome
RanCreateContact(outcome) ==
    /\ call'.op = "run_job"
    /\ call'.job.method = "create_contact"
    /\ call'.outcome = outcome

\* C31: in create_contact a TimestampMismatchError while an existing contact
\* is saved always leaves the job as RetryBackgroundJobError; a
\* DuplicateEntryError while a new contact is inserted is ignored; for
\* Administrator and Guest create_contact does nothing.
C31_ContactConflictIsRetried ==
    [][/\ (RanCreateContact("TimestampMismatchError")
           /\ call'.job.user \notin STANDARD_USERS
           /\ get_contact_name(tables, users[call'.job.user].email) # "")
             => (resp'.err = "RetryBackgroundJobError" /\ tables'.Contact = tables.Contact)
       /\ (RanCreateContact("DuplicateEntryError")
           /\ call'.job.user \notin STANDARD_USERS
           /\ get_contact_name(tables, users[call'.job.user].email) = "")
             => (resp'.err = "" /\ tables'.Contact = tables.Contact)
       /\ (call'.op = "run_job" /\ call'.job.method = "create_contact"
           /\ call'.job.user \in STANDARD_USERS)
             => (resp'.err = "" /\ tables'.Contact = tables.Contact /\ users' = users)]_vars

\* the contact of a@x.org existed and its save met a conflict: the job asks for a retry
C31_Witness ==
    /\ call.op = "run_job"
    /\ call.job = [method |-> "create_contact", user |-> "a@x.org"]
    /\ call.outcome = "TimestampMismatchError"
    /\ resp.err = "RetryBackgroundJobError"
    /\ \E c \in tables.Contact : c.user = "a@x.org"

\* the insert of the contact of c@x.org met a duplicate: the job ended without error
C31_WitnessDuplicate ==
    /\ call.op = "run_job"
    /\ call.job = [method |-> "create_contact", user |-> "c@x.org"]
    /\ call.outcome = "DuplicateEntryError"
    /\ resp.err = ""
    /\ tables.Contact = {}

\* the job of Administrator ran and wrote nothing
C31_WitnessAdministrator ==
    /\ call.op = "run_job"
    /\ call.job = [method |-> "create_contact", user |-> "Administrator"]
    /\ resp.err = ""
    /\ tables.Contact = {}

-----------------------------------------------------------------------------
(* The social logins of a saved user *)

\* the social_logins a document comes to its first save with: none, one of
\* another provider, a 'frappe' row with a userid, a 'frappe' row without one
SocialLoginInputs ==
    { <<>>,
      <<[provider |-> "github", userid |-> 5]>>,
      <<[provider |-> "frappe", userid |-> 7]>>,
      <<[provider |-> "frappe", userid |-> 0]>> }

SocialInputs ==
    { [InputDoc(n, <<>>, <<>>, "", "Website User", 1, NoPassword, 0, n \in UnusedEmails, FALSE)
         EXCEPT !.social_logins = sl, !.first_name = f, !.user_image = img] :
        n \in {"a@x.org", "Administrator", "Guest"} \cup UnusedEmails, sl \in SocialLoginInputs,
        f \in {"Ann", "Bea"}, img \in {NoImage, SmallImage, HugeImage} }

InitSocial ==
    /\ doc \in SocialInputs
    /\ login_manager = TRUE
    /\ tables = NoTables
    /\ users = [n \in UserNames |-> [BaseRow(n) EXCEPT !.social_logins = <<>>]]
    /\ auth = [n \in DOMAIN users |-> passlibhash(OtherPassword)]
    /\ sessions = DOMAIN users
    /\ session = "Administrator"
    /\ now = 0
    /\ hash_count = 0
    /\ outbox = <<>>
    /\ call = [op |-> "none", n |-> 0, input |-> doc]
    /\ resp = NoResp
    /\ redeemed = {}
    /\ system_settings \in {x \in SystemSettingsInputs :
                               x.enable_password_policy = 1
                               /\ x.reset_password_link_expiry_duration = 0}

SpecSocial == InitSocial /\ [][NextValidate]_vars

\* the rows of the provider among the social logins
EntriesOf(sl, provider) == {i \in DOMAIN sl : sl[i].provider = provider}

\* the saved user, after a save that succeeded
SavedUser == users[doc.name]

C32_WitnessAdministrator ==
    /\ call.op = "save"
    /\ resp.err = ""
    /\ doc.name = "Administrator"
    /\ call.input.social_logins = <<>>
    /\ SavedUser.social_logins = <<>>

-----------------------------------------------------------------------------
(* Saves of two requests that overlap, and the usernames *)

\* the requests that save at the same time
Processes == {1, 2}

\* the saves of one run
MaxUsernameSaves == 3

\* a request that is not in a save
Idle == [err |-> "idle", doc |-> [name |-> ""]]

\* the documents the requests save: a@x.org, b@x.org and the new c@x.org, with
\* no username, a free one, or one that b@x.org may hold; first_name "Ann"
\* scrubs to "ann"
UsernameInputs ==
    { [InputDoc(n, <<>>, <<>>, "", ut, 1, NoPassword, 0, n \in UnusedEmails, FALSE)
         EXCEPT !.username = u, !.first_name = f] :
        n \in WellFormedEmails \cup UnusedEmails, ut \in {"Website User", "System User"},
        u \in {"", "ann", "@ann", "bob"}, f \in {"Ann", "Cy"} }

InitUsername ==
    /\ \E held \in {"", "ann"} :
          users = [n \in UserNames |->
                     [BaseRow(n) EXCEPT !.username = IF n = "b@x.org" THEN held ELSE ""]]
    /\ auth = [n \in UserNames |-> passlibhash(OtherPassword)]
    /\ doc = NoDoc
    /\ sessions = {}
    /\ session = "Administrator"
    /\ now = 0
    /\ hash_count = 0
    /\ outbox = <<>>
    /\ system_settings \in {x \in SystemSettingsInputs :
                               x.enable_password_policy = 1
                               /\ x.reset_password_link_expiry_duration = 0}
    /\ redeemed = {}
    /\ call = [op |-> "none", n |-> 0, p |-> 1, pending |-> [p \in Processes |-> Idle],
               taken |-> FALSE]
    /\ resp = NoResp
    /\ login_manager = TRUE
    /\ tables = NoTables

\* the column username of tabUser is unique: the write of a username another
\* row holds is refused
unique_username_violated(rows, d) ==
    d.username # "" /\ \E n \in DOMAIN rows \ {d.name} : rows[n].username = d.username

\* a request starts doc.insert() or doc.save(): validate runs on what the
\* database shows; no other request is saving the same user
ValidateSave(p) ==
    /\ call.n < MaxUsernameSaves
    /\ call.pending[p] = Idle
    /\ \E d \in UsernameInputs :
          /\ d.islocal = (d.name \notin DOMAIN users)
          /\ \A q \in Processes \ {p} : call.pending[q].doc.name # d.name
          /\ \E c \in {validate([d EXCEPT !.flags.in_insert = d.islocal], FALSE, <<>>)} :
                /\ call' = [op |-> "validate", n |-> call.n + 1, p |-> p,
                            pending |-> [call.pending EXCEPT ![p] = c],
                            taken |-> username_exists(d, strip_username(initial_username(d)))]
                /\ doc' = c.doc
                /\ resp' = [NoResp EXCEPT !.trace = c.trace]
    /\ UNCHANGED <<users, auth, sessions, session, now, hash_count, outbox, system_settings,
                   redeemed, login_manager, tables>>

\* the request goes on: the database write, after_insert, on_update, commit
WriteSave(p) ==
    /\ call.pending[p] # Idle
    /\ \E c \in {call.pending[p]} :
          /\ IF unique_username_violated(users, c.doc)
             THEN /\ resp' = [NoResp EXCEPT !.err = "UniqueValidationError", !.trace = c.trace]
                  /\ UNCHANGED <<users, auth, sessions, session, hash_count, outbox, redeemed,
                                 tables>>
                  /\ doc' = c.doc
             ELSE \E r \in {save_validated(World, c, c.doc.islocal, TRUE)} :
                     /\ Commit(r.w)
                     /\ doc' = r.doc
                     /\ tables' = tables_after(r.w)
          /\ call' = [call EXCEPT !.op = "write", !.p = p, !.pending[p] = Idle,
                                  !.taken = unique_username_violated(users, c.doc)]
    /\ UNCHANGED <<now, system_settings, login_manager>>

NextUsername == \E p \in Processes : ValidateSave(p) \/ WriteSave(p)

SpecUsername == InitUsername /\ [][NextUsername]_vars

\* no two rows hold the same non-empty username
UsernamesUnique ==
    \A n, m \in DOMAIN users :
       (n # m /\ users[n].username # "") => users[n].username # users[m].username

\* C33 (as stated): no two users hold the same non-empty username, also after
\* two saves of different users that overlap with the same username, and a
\* save whose username another user holds ends with the username cleared.
C33_TakenUsernameIsCleared ==
    /\ UsernamesUnique
    /\ (call.op = "write" /\ call.taken) => (resp.err = "" /\ users[doc.name].username = "")

\* C33 (amended): no two users ever hold the same non-empty username.  A save
\* whose validate sees the username in another user's row goes on with the
\* username cleared; a save that overlaps with the save that takes the
\* username does not see it, and its write is refused by the unique column
\* with nothing written.
C33_UsernamesStayUnique ==
    /\ []UsernamesUnique
    /\ [][/\ (call'.op = "validate" /\ call'.taken /\ call'.pending[call'.p].err = "")
               => call'.pending[call'.p].doc.username = ""
          /\ (call'.op = "write" /\ call'.taken)
               => (resp'.err = "UniqueValidationError" /\ users' = users)
          /\ (call'.op = "write" /\ ~call'.taken /\ resp'.err = "")
               => users'[doc'.name].username = call.pending[call'.p].doc.username]_vars

\* two saves overlapped with the username "ann": the first was written, the
\* second was refused
C33_Witness ==
    /\ call.op = "write"
    /\ call.taken
    /\ resp.err = "UniqueValidationError"
    /\ doc.username = "ann"
    /\ \E n \in DOMAIN users \ {doc.name} : users[n].username = "ann"

\* a save saw the username in the row of b@x.org and cleared it
C33_WitnessCleared ==
    /\ call.op = "write"
    /\ resp.err = ""
    /\ doc.name = "a@x.org"
    /\ users["a@x.org"].username = ""
    /\ users["b@x.org"].username = "ann"
    /\ call.n = 1

-----------------------------------------------------------------------------
(* What update_password needs to change a password *)

\* the key of the call is the unexpired reset key of a user
KeyRedeemable(key) ==
    /\ key # 0
    /\ \E n \in DOMAIN users :
          /\ users[n].reset_password_key = sha256_hash(key)
          /\ ~link_expired(users[n].last_reset_password_key_generated_on,
                           system_settings.reset_password_link_expiry_duration)

\* the old password of the call is the one of the session user
OldPasswordVerifies(old_password) ==
    /\ old_password # NoPassword
    /\ session \in DOMAIN auth
    /\ auth[session] = passlibhash(old_password)

\* C34: update_password changes a stored password or logs someone in only if
\* the call carries a key whose hash is a user's stored unexpired
\* reset_password_key, or, without a key, an old_password that verifies for
\* the session user; a call with neither changes no password and logs no one in.
C34_UpdatePasswordNeedsKeyOrOldPassword ==
    [][call'.op = "update_password" =>
          /\ (auth' # auth \/ session' # session \/ sessions' # sessions)
                => \/ KeyRedeemable(call'.key)
                   \/ (call'.key = 0 /\ OldPasswordVerifies(call'.old_password))
          /\ (call'.key = 0 /\ call'.old_password = NoPassword)
                => (auth' = auth /\ users' = users /\ session' = session
                    /\ sessions' = sessions /\ resp'.err # "")]_vars

\* a call with an acceptable new password and neither key nor old_password ended in an error
C34_Witness ==
    /\ call.op = "update_password"
    /\ call.key = 0
    /\ call.old_password = NoPassword
    /\ call.new_password = GoodPassword
    /\ resp.err = "KeyError"
    /\ \A n \in DOMAIN auth : auth[n] = passlibhash(OtherPassword)

\* a call with the old password of the session user changed the password
C34_WitnessOldPassword ==
    /\ call.op = "update_password"
    /\ call.key = 0
    /\ call.old_password = OtherPassword
    /\ resp.err = ""
    /\ auth[session] = passlibhash(call.new_password)

-----------------------------------------------------------------------------
(* One redeemable token per user *)

\* the issued tokens that the row of the user would accept
RedeemableTokens(rows, n) == {k \in IssuedTokens : rows[n].reset_password_key = sha256_hash(k)}

\* C35: at most one issued reset token is redeemable per user at any time:
\* each call of User.reset_password that goes through stores the hash of the
\* new token and the time, so that every token issued before is no longer the
\* stored one, and update_password answers such a token as invalid (410)
\* without changing a password.
C35_OneRedeemableToken ==
    /\ [](\A n \in DOMAIN users : Cardinality(RedeemableTokens(users, n)) <= 1)
    /\ [][/\ (call'.op = "User.reset_password" /\ resp'.err = "")
               => /\ hash_count' = hash_count + 1
                  /\ users'[call'.user].reset_password_key = sha256_hash(hash_count')
                  /\ users'[call'.user].last_reset_password_key_generated_on = now
                  /\ \A k \in 1 .. hash_count :
                        users'[call'.user].reset_password_key # sha256_hash(k)
          /\ (call'.op = "update_password" /\ call'.key \in IssuedTokens
              /\ \A n \in DOMAIN users : call'.key \notin RedeemableTokens(users, n))
               => /\ auth' = auth /\ users' = users /\ session' = session
                  /\ (resp'.err = "" => (resp'.message = InvalidMessage
                                         /\ resp'.http_status_code = 410))]_vars

\* two tokens were issued to a@x.org and the first was then sent with an
\* acceptable password: it was answered as invalid
C35_Witness ==
    /\ call.op = "update_password"
    /\ call.key = 1
    /\ call.new_password = GoodPassword
    /\ hash_count = 2
    /\ 1 \notin redeemed
    /\ users["a@x.org"].reset_password_key = sha256_hash(2)
    /\ resp.message = InvalidMessage
    /\ resp.http_status_code = 410
    /\ auth["a@x.org"] = passlibhash(OtherPassword)

-----------------------------------------------------------------------------
(* validate applied twice *)

\* the derived authorization state of a document
AuthorizationState(d) ==
    [roles |-> d.roles, role_profiles |-> d.role_profiles, user_type |-> d.user_type,
     block_modules |-> d.block_modules, full_name |-> d.full_name]

\* C36: validate is idempotent on the derived authorization state: a second
\* validate on the result of a successful one, with the Role, Role Profile and
\* User Type documents unchanged, leaves roles, role_profiles, user_type,
\* block_modules and full_name as they were.
C36_ValidateIdempotent ==
    [][(call.op = "save" /\ resp.err = "" /\ call'.op = "save" /\ resp'.err = "")
          => AuthorizationState(doc') = AuthorizationState(doc)]_vars

\* the second validate of a user whose only role was a disabled desk role:
\* the roles were already empty, the user type went from System to Website User
C36_Witness ==
    /\ call.op = "save"
    /\ call.n = 2
    /\ resp.err = ""
    /\ doc.name = "a@x.org"
    /\ call.input.roles = <<>>
    /\ call.input.user_type = "System User"
    /\ doc.roles = <<>>
    /\ doc.user_type = "Website User"

-----------------------------------------------------------------------------
(* The mails and tokens of one sign-up *)

\* the mails a step added to the outbox
NewMails == SubSeq(outbox', Len(outbox) + 1, Len(outbox'))

\* C37: a successful sign_up for a new address sends the welcome mail exactly
\* once and issues exactly one reset token, so that the link of the first mail
\* the new user receives is redeemable when sign_up returns.
C37_OneWelcomeMailOneToken ==
    [][(SignUpNew /\ RegisteredOne /\ call'.mail_ok = <<TRUE, TRUE>>) =>
         /\ Len(NewMails) = 1
         /\ hash_count' = hash_count + 1
         /\ users'[call'.email].reset_password_key = sha256_hash(NewMails[1].link.key)]_vars

\* sign_up returned status 1 with two welcome mails in the outbox; the link of
\* the first carries a token that is no longer the stored one
C37_Witness ==
    /\ call.op = "sign_up"
    /\ call.email = "c@x.org"
    /\ resp.ret = <<1, "Please check your email for verification">>
    /\ Len(outbox) = 2
    /\ outbox[1].recipients = "c@x.org" /\ outbox[1].template = "new_user"
    /\ outbox[2].recipients = "c@x.org" /\ outbox[2].template = "new_user"
    /\ hash_count = 2
    /\ users["c@x.org"].reset_password_key = sha256_hash(outbox[2].link.key)
    /\ users["c@x.org"].reset_password_key # sha256_hash(outbox[1].link.key)

-----------------------------------------------------------------------------
(* The sign-up throttle *)

\* C38: when more than 300 users were created in the last 60 minutes, sign_up
\* for an address no user has creates no user, whatever throttle_user_limit is
\* configured: the 'Temporarily Disabled' response (429) stops the registration.
C38_ThrottledSignUpCreatesNoUser ==
    [][(call'.op = "sign_up" /\ ~is_signup_disabled /\ tables.UserCreations > 300
        /\ users_with_email(users, call'.email) = {})
          => (DOMAIN users' = DOMAIN users /\ outbox' = outbox)]_vars

\* 301 users were created in the last hour, the limit is 400: the response is
\* 'Temporarily Disabled' with status 429, and the user was registered all the same
C38_Witness ==
    /\ call.op = "sign_up"
    /\ call.email = "c@x.org"
    /\ tables.conf.throttle_user_limit = 400
    /\ tables.UserCreations > 300
    /\ resp.err = ""
    /\ resp.message = "Temporarily Disabled"
    /\ resp.http_status_code = 429
    /\ resp.ret = <<1, "Please check your email for verification">>
    /\ "c@x.org" \in DOMAIN users

\* with the limit at its default of 60 the insert is refused by throttle_user_creation
C38_WitnessDefaultLimit ==
    /\ call.op = "sign_up"
    /\ call.email = "c@x.org"
    /\ tables.conf.throttle_user_limit = 60
    /\ tables.UserCreations > 300
    /\ resp.err = "ValidationError"
    /\ resp.exc_msg = "Throttled"
    /\ "c@x.org" \notin DOMAIN users

-----------------------------------------------------------------------------
(* When a save changes the stored password *)

\* the password the store holds for a user, NoAuth when it holds none
StoredPassword(a, n) == IF n \in DOMAIN a THEN a[n] ELSE NoAuth

\* C39: a save changes the stored password of a user only when the document
\* carried a non-empty new_password and is not a reserved identity being
\* inserted; a save with an empty new_password, and every follow-up save of the
\* same in-memory document, leaves every stored password unchanged.
C39_PasswordChangesOnlyWithNewPassword ==
    [][call'.op = "save" =>
         /\ (\E n \in UserNames \cup {call'.input.name} :
                StoredPassword(auth', n) # StoredPassword(auth, n))
               => /\ call'.input.new_password # NoPassword
                  /\ ~(call'.input.name \in STANDARD_USERS /\ call'.input.islocal)
                  /\ StoredPassword(auth', call'.input.name)
                        = passlibhash(call'.input.new_password)
         /\ call'.n > 1 =>
               \A n \in UserNames \cup {call'.input.name} :
                  StoredPassword(auth', n) = StoredPassword(auth, n)]_vars

\* the first save stored the new password, the second save of the same document
\* found the field cleared and left the stored password alone
C39_Witness ==
    /\ call.op = "save"
    /\ call.n = 2
    /\ resp.err = ""
    /\ call.input.name = "a@x.org"
    /\ call.input.new_password = NoPassword
    /\ call.input.holder = GoodPassword
    /\ auth["a@x.org"] = passlibhash(GoodPassword)

\* Administrator inserted with a new password: nothing is stored for it
C39_WitnessReservedInsert ==
    /\ call.op = "save"
    /\ call.n = 1
    /\ resp.err = ""
    /\ call.input.name = "Administrator"
    /\ call.input.islocal
    /\ call.input.new_password = GoodPassword
    /\ auth["Administrator"] = NoAuth

-----------------------------------------------------------------------------
(* The 'users_for_mentions' cache key *)

\* the users a reader of the mention list is offered: enabled and allowed in mentions
users_for_mentions(rows) ==
    {n \in DOMAIN rows \ STANDARD_USERS :
        rows[n].enabled # 0 /\ rows[n].allowed_in_mentions # 0}

\* updates of an existing user: its allowed_in_mentions flag flipped, the desk
\* role added (which makes it a System User), or the user disabled
MentionInputs ==
    { [get_doc(users, n) EXCEPT !.allowed_in_mentions = 1 - @] :
        n \in DOMAIN users \ STANDARD_USERS }
    \cup { [get_doc(users, n) EXCEPT !.roles = <<"Desk">>] :
             n \in {m \in DOMAIN users \ STANDARD_USERS : users[m].roles = <<>>} }
    \cup { [get_doc(users, n) EXCEPT !.enabled = 0] :
             n \in {m \in DOMAIN users \ STANDARD_USERS : users[m].enabled # 0} }

\* a reader of the mention list fills the cache on a miss
GetUsersForMentions ==
    /\ call.n < MaxCacheOps
    /\ tables.Cache.users_for_mentions = <<>>
    /\ tables' = [tables EXCEPT !.Cache.users_for_mentions = <<users_for_mentions(users)>>]
    /\ resp' = [NoResp EXCEPT !.ret = tables'.Cache.users_for_mentions]
    /\ call' = [op |-> "get_users_for_mentions", n |-> call.n + 1, user |-> ""]
    /\ UNCHANGED <<users, auth, doc, sessions, session, now, hash_count, outbox,
                   system_settings, redeemed, login_manager>>

\* doc.save() of one of the updates
SaveMention ==
    /\ call.n < MaxCacheOps
    /\ \E d \in MentionInputs :
          \E r \in {save([World EXCEPT !.ret = <<>>], d, FALSE, <<>>, TRUE)} :
             /\ Commit(r.w)
             /\ doc' = r.doc
             /\ call' = [op |-> "save", n |-> call.n + 1, user |-> d.name]
             /\ tables' = tables_after(r.w)
    /\ UNCHANGED <<now, system_settings, login_manager>>

NextMentions == GetUsersForMentions \/ SaveMention \/ DeleteUser

SpecMentions == InitCache /\ [][NextMentions]_vars

\* the save changed nothing of the stored users but the allowed_in_mentions flag of one
ChangedOnlyMentionFlag ==
    /\ call'.op = "save"
    /\ resp'.err = ""
    /\ call'.user \in DOMAIN users
    /\ users' = [users EXCEPT ![call'.user].allowed_in_mentions = 1 - @]

\* a user who was allowed in mentions was deleted
DeletedMentionable ==
    /\ call'.op = "delete"
    /\ resp'.err = ""
    /\ users[call'.user].allowed_in_mentions # 0

\* C40: an update that changes only the user's allowed_in_mentions flag, and the
\* deletion of a user who is allowed in mentions, each delete the
\* 'users_for_mentions' cache key.
C40_MentionChangesDeleteTheKey ==
    [][(ChangedOnlyMentionFlag \/ DeletedMentionable)
          => tables'.Cache.users_for_mentions = <<>>]_vars

\* the mention list was cached, then a@x.org was taken out of mentions: the key
\* was not deleted and the cached list still offers a@x.org
C40_Witness ==
    /\ call.op = "save"
    /\ resp.err = ""
    /\ call.user = "a@x.org"
    /\ users["a@x.org"].allowed_in_mentions = 0
    /\ users["a@x.org"].enabled = 1
    /\ tables.Cache.users_for_mentions # <<>>
    /\ "a@x.org" \in tables.Cache.users_for_mentions[1]

\* the mention list was cached, then a mentionable user was deleted: the cached
\* list still offers the deleted user
C40_WitnessDeleted ==
    /\ call.op = "delete"
    /\ resp.err = ""
    /\ call.user \notin DOMAIN users
    /\ tables.Cache.users_for_mentions # <<>>
    /\ call.user \in tables.Cache.users_for_mentions[1]

\* a change of enabled or of user_type does delete the key
C40_EnabledAndUserTypeDeleteTheKey ==
    [][(call'.op = "save" /\ resp'.err = "" /\ call'.user \in DOMAIN users
        /\ (users'[call'.user].enabled # users[call'.user].enabled
            \/ users'[call'.user].user_type # users[call'.user].user_type))
          => tables'.Cache.users_for_mentions = <<>>]_vars

\* the mention list was cached and the update that gave b@x.org the desk role dropped it
C40_WitnessUserType ==
    /\ call.op = "save"
    /\ resp.err = ""
    /\ call.n >= 2
    /\ call.user = "b@x.org"
    /\ users["b@x.org"].user_type = "System User"
    /\ users["b@x.org"].allowed_in_mentions = 1
    /\ tables.Cache.users_for_mentions = <<>>

====
